---- MODULE Spec2Model ----
(***************************************************************************)
(* Request execution pipeline of the requests package: interceptor         *)
(* chaining (ChainInterceptors / getChainDo), Client.request, Client.do,   *)
(* newResponse, and option resolution (parseOptions and the body           *)
(* dispatchers).                                                           *)
(***************************************************************************)
EXTENDS Integers, Sequences, FiniteSets, TLC

\* ------------------------------------------------------------------ bounds
\* longest client-level interceptor list handed to ChainInterceptors
MaxChain == 3
\* number of calls made one after the other on the same client
MaxCalls == 2

\* ------------------------------------------------------- values of the model
\* id of the per-call interceptor (Interceptor option); client-level
\* interceptors are numbered 1..n in list order
PerCall == 0
\* "no interceptor short-circuits"
NoLeaf == PerCall - 1

Statuses == {199, 200, 299, 300, 404}
\* response bodies: one that is not JSON, one that is
Bodies == {"not found", "{}"}
JSONValid(b) == b = "{}"

NilResp == [nil |-> TRUE, status |-> -1, body |-> ""]
NilErr == [kind |-> "nil", msg |-> <<>>]
IsNilErr(e) == e.kind = "nil"

\* errors produced outside the package
TransportErrs ==
  { [kind |-> "transport", msg |-> <<"connection refused">>],
    [kind |-> "transport", msg |-> <<"Client.Timeout exceeded">>] }
CtxErr == [kind |-> "transport", msg |-> <<"context deadline exceeded">>]
UrlErr == [kind |-> "newRequest", msg |-> <<"parse url">>]
DumpReqErr == [kind |-> "dumpRequestOut", msg |-> <<"dump">>]
DumpRespErr == [kind |-> "dumpResponse", msg |-> <<"dump">>]
ReadErr == [kind |-> "read", msg |-> <<"unexpected EOF">>]
CloseErr == [kind |-> "close", msg |-> <<"close">>]
JSONErr == [kind |-> "json", msg |-> <<"invalid character">>]
ShortErr == [kind |-> "interceptor", msg |-> <<"short-circuit">>]

VARIABLES
  client,    \* the Client: its interceptor (Client.interceptor) and chain list
  ncalls,    \* calls started so far on the client
  pc,        \* position of the current call
  call,      \* per-call inputs: the resolved Options the pipeline reads
  reqCtx,    \* context carried by r.Request
  ctx,       \* context computed by Client.request and handed down the chain
  ctxDone,   \* ctx was cancelled or its deadline expired during the round trip
  pend,      \* the invocation about to run (interceptor, do, or a return)
  stack,     \* leaf interceptors that called do and wait for it to return
  trace,     \* observed events of the current call
  rt,        \* what the transport round trip produced
  doRet,     \* what Client.do returned
  result,    \* (response, error) flowing back to the caller
  closed,    \* how many times the network body stream was closed
  rtCalls,   \* round trips performed for the current call
  sinks,     \* Dump sinks and ToText / ToJSON bindings of the current call
  opts,      \* the Options under construction by parseOptions
  nopts,     \* options applied so far
  supplied,  \* every (key, value) the caller supplied, with the option it came in
  last,      \* the last body-variant option the caller gave, with its payload
  wire,      \* the request handed to the transport, once built
  url,       \* the URL string of the call
  seen,      \* what a per-call interceptor read from the request it was given
  served,    \* the request as the server received it
  ctor,      \* a HeaderPairs / ParamPairs / FormPairs call: arguments and outcome
  built,     \* a NewClient call: its setters and the Client under construction
  env,       \* the process environment: shared transport and host overrides
  heap,      \* the *http.Transport objects that exist, with their fields
  conc,      \* the calls running concurrently in do, each with its locals
  rbody,     \* a Response in the caller's hands and the network stream behind it
  redir,     \* a redirect hop: the requests so far, the next one, the verdict
  envIcpt,   \* env.interceptor and the interceptors registered so far
  dflt,      \* the default client, its sync.Once and the goroutines using it
  cmaps,     \* the maps a caller handed to options, and the one opts.Files is
  ictx       \* an interceptor that derives a context and calls do with it

pipeVars == <<client, ncalls, pc, call, reqCtx, ctx, ctxDone, pend, stack,
              trace, rt, doRet, result, closed, rtCalls, sinks>>
optVars == <<opts, nopts, supplied, last, wire>>
sendVars == <<url, seen, served>>
moreVars == <<rbody, redir, envIcpt, dflt, cmaps, ictx>>
extraVars == <<ctor, built, env, heap, conc, moreVars>>
restVars == <<sendVars, extraVars>>
vars == <<client, ncalls, pc, call, reqCtx, ctx, ctxDone, pend, stack, trace,
          rt, doRet, result, closed, rtCalls, sinks, opts, nopts, supplied,
          last, wire, url, seen, served, ctor, built, env, heap, conc,
          rbody, redir, envIcpt, dflt, cmaps, ictx>>

\* ------------------------------------------------------ interceptor chaining
NilIcpt == [kind |-> "nil"]
Leaf(i) == [kind |-> "leaf", id |-> i]
FinalDo == [kind |-> "final"]

\* getChainDo stopping one interceptor early: the last one never runs
getChainDoStopsEarly(interceptors, curr, finalDo) ==
  IF curr >= Len(interceptors) - 2
  THEN finalDo
  ELSE [kind |-> "chain", ints |-> interceptors, curr |-> curr,
        finalDo |-> finalDo]

\* getChainDo(interceptors, curr, finalDo); curr is the 0-based index of Go
getChainDo(interceptors, curr, finalDo) ==
  IF curr = Len(interceptors) - 1
  THEN finalDo
  ELSE [kind |-> "chain", ints |-> interceptors, curr |-> curr,
        finalDo |-> finalDo]

\* ChainInterceptors(interceptors...)
ChainInterceptors(interceptors) ==
  CASE Len(interceptors) = 0 -> NilIcpt
    [] Len(interceptors) = 1 -> interceptors[1]
    [] OTHER -> [kind |-> "chained", ints |-> interceptors]

NoPend == [t |-> "none"]
NoRt == [kind |-> "none", status |-> 0, body |-> "", err |-> NilErr,
         dumped |-> "none", drain |-> "none"]
NoResult == [resp |-> NilResp, err |-> NilErr]
NoSinks == [req |-> "unset", resp |-> "unset", text |-> "unset",
            json |-> "unset"]
NoCall == [method |-> "GET", hasP |-> FALSE, dump |-> FALSE,
           toText |-> FALSE, toJSON |-> FALSE, timeout |-> 0,
           ctxCancellable |-> FALSE, shortAt |-> NoLeaf]
NoCtx == [cancellable |-> FALSE, deadline |-> FALSE]

Methods == {"GET", "POST", "PUT", "PATCH", "DELETE"}

\* ------------------------------------------------------- option resolution
\* options given in one call
MaxOpts == 2
\* key/value pairs given to one HeaderPairs / ParamPairs / FormPairs option
MaxPairs == 2

\* header keys as the caller writes them, and http.CanonicalHeaderKey
HeaderRaw == {"x-a", "X-A", "Content-Type"}
CanonicalHeaderKey(k) == IF k = "x-a" THEN "X-A" ELSE k
\* the header a per-call interceptor sets on the request
IcptHeader == "X-Body-Size"
HeaderKeys == {CanonicalHeaderKey(k) : k \in HeaderRaw} \cup {IcptHeader}
ParamKeys == {"p", "q"}
FormKeys == {"f", "g"}

\* the value the caller gives as the j-th value of the n-th option: all
\* supplied values differ, so a dropped, overwritten or reordered one shows
Tok(n, j) == "v" \o ToString(n) \o "." \o ToString(j)

FormContentType == "application/x-www-form-urlencoded"
JSONContentType == "application/json"
MultipartContentType == "multipart/form-data; boundary=b"

\* http.Header / url.Values: key -> values in insertion order
EmptyValues(keys) == [k \in keys |-> <<>>]
\* url.Values.Add
Add(values, key, value) == [values EXCEPT ![key] = Append(@, value)]
\* http.Header.Add and http.Header.Set canonicalize the key
HeaderAdd(h, key, value) == Add(h, CanonicalHeaderKey(key), value)
HeaderSet(h, key, value) == [h EXCEPT ![CanonicalHeaderKey(key)] = <<value>>]

\* a pairs option receives kv = k1, v1, k2, v2, ...; here the list of keys,
\* the values being Tok(n, 1), Tok(n, 2), ...
KeyLists(keys) ==
  UNION {[1..len -> keys] : len \in 0..MaxPairs}
kvOf(n, keyList) ==
  [i \in 1..(2 * Len(keyList)) |->
     IF i % 2 = 1 THEN keyList[(i + 1) \div 2] ELSE Tok(n, i \div 2)]

\* the loop of HeaderPairs / ParamPairs / FormPairs over kv into a fresh
\* http.Header (canon = TRUE) or url.Values; i is the 0-based index of Go
RECURSIVE PairsLoop(_, _, _, _, _)
PairsLoop(kv, i, key, acc, canon) ==
  IF i >= Len(kv) THEN acc
  ELSE IF i % 2 = 0
  THEN PairsLoop(kv, i + 1, kv[i + 1], acc, canon)
  ELSE PairsLoop(kv, i + 1, key,
                 IF canon THEN HeaderAdd(acc, key, kv[i + 1])
                 ELSE Add(acc, key, kv[i + 1]), canon)

\* the values of a key replaced by the new ones, as with a map[string]string
AddValuesOverwrite(dst, src) ==
  [k \in DOMAIN dst |-> IF src[k] # <<>> THEN src[k] ELSE dst[k]]

\* Headers / Params / Form given an http.Header or url.Values: every value of
\* every key is added, the values of one key in their order
AddValues(dst, src) == [k \in DOMAIN dst |-> dst[k] \o src[k]]

\* Headers / Params / Form given a map[string]string m, ranged over in the
\* order keySeq (Go ranges over a map in an unspecified order)
RECURSIVE AddMap(_, _, _, _)
AddMap(dst, m, keySeq, canon) ==
  IF keySeq = <<>> THEN dst
  ELSE AddMap(IF canon THEN HeaderAdd(dst, Head(keySeq), m[Head(keySeq)])
              ELSE Add(dst, Head(keySeq), m[Head(keySeq)]),
              m, Tail(keySeq), canon)

\* the orders in which a map with key set ks can be ranged over
Orders(ks) ==
  {sq \in [1..Cardinality(ks) -> ks] :
     \A i, j \in 1..Cardinality(ks) : i # j => sq[i] # sq[j]}

\* a map[string]string of option n over key set ks: key number j of the fixed
\* listing of all keys carries Tok(n, j)
KeyIndex(k) ==
  CASE k \in {"x-a", "p", "f"} -> 1
    [] k \in {"X-A", "q", "g"} -> 2
    [] OTHER -> 3
MapOf(n, ks) == [k \in ks |-> Tok(n, KeyIndex(k))]

\* bodyType
bodyTypeDefault == "default"
bodyTypeData == "data"
bodyTypeForm == "form"
bodyTypeJSON == "json"
bodyTypeFiles == "files"

NoReader == [enc |-> "nil", data |-> ""]
NoData == [t |-> "nil", s |-> "", i |-> 0]
NoJSON == "nil-json"
NoFiles == [f \in {} |-> ""]

\* newDefaultOptions
newDefaultOptions ==
  [Headers |-> EmptyValues(HeaderKeys), Params |-> EmptyValues(ParamKeys),
   Form |-> EmptyValues(FormKeys), bodyType |-> bodyTypeDefault,
   Body |-> NoReader, Data |-> NoData, JSON |-> NoJSON, Files |-> NoFiles]

NoLast == [variant |-> bodyTypeDefault, payload |-> NoReader]
NoBody == [enc |-> "none", data |-> ""]
NoWire == [state |-> "none", headers |-> EmptyValues(HeaderKeys),
           rawQuery |-> <<>>, body |-> NoBody, bytes |-> NoBody]

\* the URL string of a call: whether it parses, whether it holds a literal
\* '?', and the literal query behind it as "k=v" pairs in the order written
PlainUrl == [valid |-> TRUE, hasQ |-> FALSE, raw |-> <<>>]
Urls ==
  {PlainUrl,
   [valid |-> FALSE, hasQ |-> TRUE, raw |-> <<[k |-> "p", v |-> "u1"]>>],
   [valid |-> TRUE, hasQ |-> TRUE, raw |-> <<>>],
   [valid |-> TRUE, hasQ |-> TRUE, raw |-> <<[k |-> "p", v |-> "u1"]>>],
   [valid |-> TRUE, hasQ |-> TRUE,
    raw |-> <<[k |-> "q", v |-> "u1"], [k |-> "p", v |-> "u2"],
              [k |-> "p", v |-> "u3"]>>]}
NoSeen == [read |-> FALSE, bytes |-> NoBody]
NoServed == [got |-> FALSE, headers |-> EmptyValues(HeaderKeys),
             query |-> EmptyValues(ParamKeys), body |-> NoBody]

\* -------------------------------------------- the options, applied in order
\* parseOptions runs the setters in call order; each action below is one
\* setter applied to opts.  n is the position of the option in the call.
CanApply == wire.state = "none" /\ nopts < MaxOpts

SuppliedByKeys(kind, n, keyList, canon) ==
  {[kind |-> kind,
    key |-> IF canon THEN CanonicalHeaderKey(keyList[j]) ELSE keyList[j],
    tok |-> Tok(n, j), n |-> n, j |-> j, ord |-> TRUE] :
     j \in 1..Len(keyList)}
SuppliedByMap(kind, n, ks, canon) ==
  {[kind |-> kind,
    key |-> IF canon THEN CanonicalHeaderKey(k) ELSE k,
    tok |-> Tok(n, KeyIndex(k)), n |-> n, j |-> KeyIndex(k),
    ord |-> FALSE] : k \in ks}

\* Headers(map[string]string)
Headers ==
  /\ CanApply
  /\ \E ks \in (SUBSET HeaderRaw) \ {{}} : \E order \in Orders(ks) :
       /\ opts' = [opts EXCEPT
                     !.Headers = AddMap(@, MapOf(nopts + 1, ks), order, TRUE)]
       /\ supplied' = supplied \cup SuppliedByMap("header", nopts + 1, ks, TRUE)
  /\ nopts' = nopts + 1
  /\ UNCHANGED <<last, wire>>
  /\ UNCHANGED <<pipeVars, restVars>>

\* HeaderPairs(kv...) = Headers(http.Header built from kv)
HeaderPairs ==
  /\ CanApply
  /\ \E keyList \in KeyLists(HeaderRaw) :
       /\ opts' = [opts EXCEPT
                     !.Headers = AddValues(@,
                        PairsLoop(kvOf(nopts + 1, keyList), 0, "",
                                  EmptyValues(HeaderKeys), TRUE))]
       /\ supplied' = supplied
            \cup SuppliedByKeys("header", nopts + 1, keyList, TRUE)
  /\ nopts' = nopts + 1
  /\ UNCHANGED <<last, wire>>
  /\ UNCHANGED <<pipeVars, restVars>>

\* Params(map[string]string)
Params ==
  /\ CanApply
  /\ \E ks \in (SUBSET ParamKeys) \ {{}} : \E order \in Orders(ks) :
       /\ opts' = [opts EXCEPT
                     !.Params = AddMap(@, MapOf(nopts + 1, ks), order, FALSE)]
       /\ supplied' = supplied \cup SuppliedByMap("param", nopts + 1, ks, FALSE)
  /\ nopts' = nopts + 1
  /\ UNCHANGED <<last, wire>>
  /\ UNCHANGED <<pipeVars, restVars>>

\* ParamPairs(kv...) = Params(url.Values built from kv)
ParamPairs ==
  /\ CanApply
  /\ \E keyList \in KeyLists(ParamKeys) :
       /\ opts' = [opts EXCEPT
                     !.Params = AddValues(@,
                        PairsLoop(kvOf(nopts + 1, keyList), 0, "",
                                  EmptyValues(ParamKeys), FALSE))]
       /\ supplied' = supplied
            \cup SuppliedByKeys("param", nopts + 1, keyList, FALSE)
  /\ nopts' = nopts + 1
  /\ UNCHANGED <<last, wire>>
  /\ UNCHANGED <<pipeVars, restVars>>

\* Form(map[string]string)
Form ==
  /\ CanApply
  /\ \E ks \in (SUBSET FormKeys) \ {{}} : \E order \in Orders(ks) :
       /\ opts' = [opts EXCEPT
                     !.Form = AddMap(@, MapOf(nopts + 1, ks), order, FALSE),
                     !.bodyType = bodyTypeForm]
       /\ supplied' = supplied \cup SuppliedByMap("form", nopts + 1, ks, FALSE)
  /\ last' = [variant |-> bodyTypeForm, payload |-> NoReader]
  /\ nopts' = nopts + 1
  /\ UNCHANGED wire
  /\ UNCHANGED <<pipeVars, restVars>>

\* FormPairs(kv...) = Form(url.Values built from kv)
FormPairs ==
  /\ CanApply
  /\ \E keyList \in KeyLists(FormKeys) :
       /\ opts' = [opts EXCEPT
                     !.Form = AddValues(@,
                        PairsLoop(kvOf(nopts + 1, keyList), 0, "",
                                  EmptyValues(FormKeys), FALSE)),
                     !.bodyType = bodyTypeForm]
       /\ supplied' = supplied
            \cup SuppliedByKeys("form", nopts + 1, keyList, FALSE)
  /\ last' = [variant |-> bodyTypeForm, payload |-> NoReader]
  /\ nopts' = nopts + 1
  /\ UNCHANGED wire
  /\ UNCHANGED <<pipeVars, restVars>>

\* Body(io.Reader)
Readers == {[enc |-> "reader", data |-> "raw-bytes"], NoReader}
Body ==
  /\ CanApply
  /\ \E body \in Readers :
       /\ opts' = [opts EXCEPT !.Body = body, !.bodyType = bodyTypeDefault]
       /\ last' = [variant |-> bodyTypeDefault, payload |-> body]
  /\ nopts' = nopts + 1
  /\ UNCHANGED <<supplied, wire>>
  /\ UNCHANGED <<pipeVars, restVars>>

\* Data(any)
DataValues == {[t |-> "string", s |-> "d1", i |-> 0],
               [t |-> "int", s |-> "", i |-> 7]}
Data ==
  /\ CanApply
  /\ \E data \in DataValues :
       /\ opts' = [opts EXCEPT !.Data = data, !.bodyType = bodyTypeData]
       /\ last' = [variant |-> bodyTypeData, payload |-> data]
  /\ nopts' = nopts + 1
  /\ UNCHANGED <<supplied, wire>>
  /\ UNCHANGED <<pipeVars, restVars>>

\* JSON(any): a value that marshals, one that does not, and nil
JSONValues == {"object", "unmarshalable", NoJSON}
JSON ==
  /\ CanApply
  /\ \E v \in JSONValues :
       /\ opts' = [opts EXCEPT !.JSON = v, !.bodyType = bodyTypeJSON]
       /\ last' = [variant |-> bodyTypeJSON, payload |-> v]
  /\ nopts' = nopts + 1
  /\ UNCHANGED <<supplied, wire>>
  /\ UNCHANGED <<pipeVars, restVars>>

\* Files(map[string]*os.File): a first map is taken as it is, a later one is
\* copied into it entry by entry
FileFields == {"file1", "file2"}
Files ==
  /\ CanApply
  /\ \E fields \in (SUBSET FileFields) \ {{}} :
       LET files == [f \in fields |-> Tok(nopts + 1, 1)] IN
       /\ opts' = [opts EXCEPT
                     !.Files = IF DOMAIN @ # {}
                               THEN [f \in DOMAIN @ \cup fields |->
                                       IF f \in fields THEN files[f] ELSE @[f]]
                               ELSE files,
                     !.bodyType = bodyTypeFiles]
       /\ supplied' = supplied \cup
            {[kind |-> "file", key |-> f, tok |-> Tok(nopts + 1, 1),
              n |-> nopts + 1, j |-> 1, ord |-> FALSE] : f \in fields}
  /\ last' = [variant |-> bodyTypeFiles, payload |-> NoReader]
  /\ nopts' = nopts + 1
  /\ UNCHANGED wire
  /\ UNCHANGED <<pipeVars, restVars>>

\* ------------------------------------------------------------------- client
\* NewClient(WithInterceptor(ChainInterceptors(i1, ..., in))): newDefaultClient
\* leaves the interceptor nil, WithInterceptor stores the composed handler
ClientList(n) == [k \in 1..n |-> Leaf(k)]
NewClient(n) == [interceptor |-> ChainInterceptors(ClientList(n)), n |-> n]

\* ---------------------------------------------- values of the other parts
\* no pairs option is being constructed
NoCtor == [kind |-> "none", kv |-> <<>>, state |-> "none"]
\* no NewClient call is under way
NoConfig == [Timeout |-> 0, Transport |-> "nil", interceptor |-> NilIcpt]
NoBuilt == [stage |-> "none", setters |-> <<>>, client |-> NoConfig,
            timeoutSet |-> FALSE]

\* calls that run concurrently in do
MaxConc == 2
Hosts == {"example1.com", "example2.com"}
\* env.transport, the transport every call shares
SharedTransport == "shared"
\* the clone made for call i
CloneId(i) == "clone" \o ToString(i)
TransportIds == {SharedTransport} \cup {CloneId(i) : i \in 1..MaxConc}
\* RoundTrippers a caller can register for a host, nil for none
HostRoundTrippers == {"nil", SharedTransport, "hostRT"}
\* RoundTrippers a caller can give to one call, nil for none
CallRoundTrippers == {"nil", "callRT"}
NoTransport == [allocated |-> FALSE, DisableKeepAlives |-> FALSE]
NoConc == [pc |-> "idle", RoundTripper |-> "nil", DisableKeepAlives |-> FALSE,
           host |-> "example1.com", rt |-> "nil", transport |-> "nil",
           roundTripper |-> "nil",
           used |-> [rt |-> "nil", keepAlivesDisabled |-> FALSE]]

\* init() of the environment: env.transport is set, no host override
InitEnv ==
  /\ env = [transport |-> SharedTransport,
            hostRoundTrippers |-> [h \in Hosts |-> "nil"]]
  /\ heap = [id \in TransportIds |->
              IF id = SharedTransport
              THEN [allocated |-> TRUE, DisableKeepAlives |-> FALSE]
              ELSE NoTransport]
  /\ conc = [i \in 1..MaxConc |-> NoConc]

\* no response has arrived
NoRbody == [state |-> "none", data |-> "", atEnd |-> FALSE, reads |-> 0,
            closes |-> 0, body |-> "", drain |-> "none", rets |-> <<>>,
            calls |-> 0]
\* headers of the requests of a redirect chain
RedirectKeys == {"Authorization", "X-A"}
\* no redirect is being checked
NoRedir == [state |-> "none", via |-> <<>>,
            req |-> EmptyValues(RedirectKeys), out |-> EmptyValues(RedirectKeys),
            err |-> NilErr]
\* env after the package's init: no interceptor
NoEnvIcpt == [interceptor |-> NilIcpt, registered |-> <<>>,
              calls |-> 0, args |-> <<>>, prev |-> NilIcpt,
              invoked |-> FALSE, ran |-> <<>>]
\* a goroutine that has not called into the package
NoGoroutine == [pc |-> "idle", entry |-> "none", slow |-> FALSE, seen |-> 0]

\* the package variables once and defaultClient before any call; client 0 is
\* the nil *Client
NoDflt == [done |-> FALSE, mu |-> 0, defaultClient |-> 0, constructed |-> 0,
           g |-> <<>>]
\* no map made by the caller, and the Options of newDefaultOptions with
\* Files nil (reference 0)
NoCmaps == [heap |-> <<>>, orig |-> <<>>, kind |-> <<>>,
            Headers |-> EmptyValues(HeaderKeys),
            Params |-> EmptyValues(ParamKeys),
            Form |-> EmptyValues(FormKeys),
            Files |-> 0, bodyType |-> bodyTypeDefault,
            n |-> 0, resolved |-> FALSE]
\* no interceptor is deriving a context
NoIctx == [pc |-> "idle", ctx |-> NoCtx, reqCtx |-> "none", kind |-> "none",
           passed |-> NoCtx, done |-> FALSE, out |-> NoRt]

InitCall ==
  /\ client \in {NewClient(n) : n \in 0..MaxChain}
  /\ ncalls = 0
  /\ pc = "idle"
  /\ call = NoCall
  /\ reqCtx = "none"
  /\ ctx = NoCtx
  /\ ctxDone = FALSE
  /\ pend = NoPend
  /\ stack = <<>>
  /\ trace = <<>>
  /\ rt = NoRt
  /\ doRet = NoResult
  /\ result = NoResult
  /\ closed = 0
  /\ rtCalls = 0
  /\ sinks = NoSinks
  /\ opts = newDefaultOptions
  /\ nopts = 0
  /\ supplied = {}
  /\ last = NoLast
  /\ wire = NoWire
  /\ url = PlainUrl
  /\ seen = NoSeen
  /\ served = NoServed

\* nothing but the call under way: no constructor, no NewClient, no call in do
InitIdle ==
  /\ ctor = NoCtor
  /\ built = NoBuilt
  /\ InitEnv

Init ==
  /\ InitCall
  /\ InitIdle
  /\ rbody = NoRbody
  /\ redir = NoRedir
  /\ envIcpt = NoEnvIcpt
  /\ dflt = NoDflt
  /\ cmaps = NoCmaps
  /\ ictx = NoIctx

\* leaves that exist in a call: the per-call one and the client's
LeafIds(hasP, n) == (IF hasP THEN {PerCall} ELSE {}) \cup 1..n

\* Client.Get / Post / Put / Patch / Delete -> Client.callMethod: the options
\* are resolved and the dispatcher of the body type encodes the body; a body
\* that cannot be encoded ends the call before Client.request
callMethod ==
  /\ pc = "idle"
  /\ ncalls < MaxCalls
  /\ \E m \in Methods, hasP \in BOOLEAN, dump \in BOOLEAN, toText \in BOOLEAN,
        toJSON \in BOOLEAN, timeout \in {0, 1}, cc \in BOOLEAN,
        encodeOK \in BOOLEAN :
       \E shortAt \in {NoLeaf} \cup LeafIds(hasP, client.n) :
         /\ call' = [method |-> m, hasP |-> hasP, dump |-> dump,
                     toText |-> toText, toJSON |-> toJSON,
                     timeout |-> timeout, ctxCancellable |-> cc,
                     shortAt |-> shortAt]
         /\ IF encodeOK
            THEN /\ pc' = "request"
                 /\ result' = NoResult
            ELSE /\ pc' = "done"
                 /\ result' = [resp |-> NilResp,
                               err |-> [kind |-> "encode", msg |-> <<"json">>]]
  /\ ncalls' = ncalls + 1
  /\ reqCtx' = "none"
  /\ ctx' = NoCtx
  /\ ctxDone' = FALSE
  /\ pend' = NoPend
  /\ stack' = <<>>
  /\ trace' = <<>>
  /\ rt' = NoRt
  /\ doRet' = NoResult
  /\ closed' = 0
  /\ rtCalls' = 0
  /\ sinks' = NoSinks
  /\ UNCHANGED client
  /\ UNCHANGED <<optVars, restVars>>

\* the list with the client's interceptor put first
RequestInterceptorsClientFirst(hasP, clientIcpt) ==
  (IF clientIcpt.kind # "nil" THEN <<clientIcpt>> ELSE <<>>)
    \o (IF hasP THEN <<[kind |-> "leaf", id |-> PerCall]>> ELSE <<>>)

\* the interceptor list Client.request builds: the per-call interceptor first,
\* then the client's
RequestInterceptors(hasP, clientIcpt) ==
  (IF hasP THEN <<Leaf(PerCall)>> ELSE <<>>)
    \o (IF clientIcpt.kind # "nil" THEN <<clientIcpt>> ELSE <<>>)

\* Client.request returning without the transport call when no interceptor is
\* installed
FirstInvocationSkipsDo(interceptor) ==
  IF interceptor.kind # "nil"
  THEN [t |-> "icpt", f |-> interceptor, d |-> FinalDo]
  ELSE [t |-> "ret"]

\* what Client.request hands control to: the composed interceptor with c.do
\* as its do, or c.do itself when there is none
FirstInvocation(interceptor) ==
  IF interceptor.kind # "nil"
  THEN [t |-> "icpt", f |-> interceptor, d |-> FinalDo]
  ELSE [t |-> "do", d |-> FinalDo]

\* a deadline derived from any Timeout, zero included
callCtxAlwaysDeadline(cancellable, timeout) ==
  [cancellable |-> cancellable, deadline |-> timeout >= 0]

\* ctx := opts.ctx; if opts.Timeout > 0 { ctx = context.WithTimeout(ctx, ...) }
callCtx(cancellable, timeout) ==
  [cancellable |-> cancellable, deadline |-> timeout > 0]

\* Client.request up to the point where it calls the interceptor or c.do
ClientRequest ==
  /\ pc = "request"
  /\ \E urlOK \in BOOLEAN, dumpOK \in BOOLEAN :
       IF ~urlOK
       THEN \* newRequest failed
            /\ pc' = "done"
            /\ result' = [resp |-> NilResp, err |-> UrlErr]
            /\ UNCHANGED <<reqCtx, ctx, pend, sinks>>
       ELSE IF call.dump /\ ~dumpOK
       THEN \* httputil.DumpRequestOut failed
            /\ pc' = "done"
            /\ result' = [resp |-> NilResp, err |-> DumpReqErr]
            /\ reqCtx' = "background"
            /\ UNCHANGED <<ctx, pend, sinks>>
       ELSE /\ pc' = "chain"
            \* newRequest: http.NewRequest gives the request the background context
            /\ reqCtx' = "background"
            /\ sinks' = IF call.dump THEN [sinks EXCEPT !.req = "written"]
                        ELSE sinks
            /\ ctx' = callCtx(call.ctxCancellable, call.timeout)
            /\ pend' = FirstInvocation(ChainInterceptors(
                         RequestInterceptors(call.hasP, client.interceptor)))
            /\ UNCHANGED result
  /\ UNCHANGED <<client, ncalls, call, ctxDone, stack, trace, rt, doRet,
                 closed, rtCalls>>
  /\ UNCHANGED <<optVars, restVars>>

\* the closure returned by ChainInterceptors for two or more interceptors
CallChained ==
  /\ pc = "chain"
  /\ pend.t = "icpt"
  /\ pend.f.kind = "chained"
  /\ pend' = [t |-> "icpt", f |-> pend.f.ints[1],
              d |-> getChainDo(pend.f.ints, 0, pend.d)]
  /\ UNCHANGED <<client, ncalls, pc, call, reqCtx, ctx, ctxDone, stack, trace,
                 rt, doRet, result, closed, rtCalls, sinks>>
  /\ UNCHANGED <<optVars, restVars>>

\* the closure returned by getChainDo: the next interceptor of the list
CallChainDo ==
  /\ pc = "chain"
  /\ pend.t = "do"
  /\ pend.d.kind = "chain"
  /\ pend' = [t |-> "icpt", f |-> pend.d.ints[pend.d.curr + 2],
              d |-> getChainDo(pend.d.ints, pend.d.curr + 1, pend.d.finalDo)]
  /\ UNCHANGED <<client, ncalls, pc, call, reqCtx, ctx, ctxDone, stack, trace,
                 rt, doRet, result, closed, rtCalls, sinks>>
  /\ UNCHANGED <<optVars, restVars>>

\* a user interceptor runs its before-phase and either calls do(ctx, r) once
\* or returns its own error without calling it
LeafBefore ==
  /\ pc = "chain"
  /\ pend.t = "icpt"
  /\ pend.f.kind = "leaf"
  /\ trace' = Append(trace, [e |-> "before", id |-> pend.f.id])
  /\ stack' = Append(stack, [id |-> pend.f.id, d |-> pend.d])
  /\ IF call.shortAt = pend.f.id
     THEN /\ pend' = [t |-> "ret"]
          /\ result' = [resp |-> NilResp, err |-> ShortErr]
     ELSE /\ pend' = [t |-> "do", d |-> pend.d]
          /\ UNCHANGED result
  /\ UNCHANGED <<client, ncalls, pc, call, reqCtx, ctx, ctxDone, rt, doRet,
                 closed, rtCalls, sinks>>
  /\ UNCHANGED <<optVars, restVars>>

\* do returned to a user interceptor: it runs its after-phase and returns the
\* pair unchanged
LeafAfter ==
  /\ pc = "chain"
  /\ pend.t = "ret"
  /\ stack # <<>>
  /\ trace' = Append(trace, [e |-> "after", id |-> stack[Len(stack)].id])
  /\ stack' = SubSeq(stack, 1, Len(stack) - 1)
  /\ UNCHANGED <<client, ncalls, pc, call, reqCtx, ctx, ctxDone, pend, rt,
                 doRet, result, closed, rtCalls, sinks>>
  /\ UNCHANGED <<optVars, restVars>>

\* Client.request calling c.do itself when the interceptor returned without
\* the transport call having been made
RequestReturnCallsDo ==
  /\ pc = "chain"
  /\ pend.t = "ret"
  /\ stack = <<>>
  /\ IF rtCalls = 0
     THEN /\ pend' = [t |-> "do", d |-> FinalDo]
          /\ UNCHANGED pc
     ELSE /\ pc' = "done"
          /\ pend' = NoPend
  /\ UNCHANGED <<client, ncalls, call, reqCtx, ctx, ctxDone, stack, trace,
                 rt, doRet, result, closed, rtCalls, sinks>>
  /\ UNCHANGED <<optVars, restVars>>

\* the outermost handler returned: Client.request returns to the caller
RequestReturn ==
  /\ pc = "chain"
  /\ pend.t = "ret"
  /\ stack = <<>>
  /\ pc' = "done"
  /\ pend' = NoPend
  /\ UNCHANGED <<client, ncalls, call, reqCtx, ctx, ctxDone, stack, trace,
                 rt, doRet, result, closed, rtCalls, sinks>>
  /\ UNCHANGED <<optVars, restVars>>

\* ---------------------------------------------------------------- Client.do
\* c.client.Do(r.Request) is entered: the round trip is in flight
DoSend ==
  /\ pc = "chain"
  /\ pend.t = "do"
  /\ pend.d.kind = "final"
  /\ pc' = "inflight"
  /\ rtCalls' = rtCalls + 1
  /\ trace' = Append(trace, [e |-> "T", id |-> NoLeaf])
  /\ UNCHANGED <<client, ncalls, call, reqCtx, ctx, ctxDone, pend, stack, rt,
                 doRet, result, closed, sinks>>
  /\ UNCHANGED <<optVars, restVars>>

\* the context of the call (Context option, or the deadline derived from the
\* Timeout option) is cancelled or expires while the round trip is in flight
CtxDone ==
  /\ pc = "inflight"
  /\ ctx.cancellable \/ ctx.deadline
  /\ ~ctxDone
  /\ ctxDone' = TRUE
  /\ UNCHANGED <<client, ncalls, pc, call, reqCtx, ctx, pend, stack, trace,
                 rt, doRet, result, closed, rtCalls, sinks>>
  /\ UNCHANGED <<optVars, restVars>>

\* what http.Client.Do can produce: it watches the context carried by
\* r.Request, and no other
RoundTripOutcomes(requestCtx, done) ==
  IF requestCtx = "call" /\ done
  THEN {[kind |-> "error", status |-> 0, body |-> "", err |-> CtxErr]}
  ELSE {[kind |-> "error", status |-> 0, body |-> "", err |-> e] :
          e \in TransportErrs}
         \cup {[kind |-> "response", status |-> st, body |-> b,
                err |-> NilErr] : st \in Statuses, b \in Bodies}

\* Response.readAndCloseBody: io.ReadAll, then the deferred Body.Close
readAndCloseBody(drain) ==
  CASE drain = "ok" -> NilErr
    [] drain = "readErr" -> ReadErr
    [] OTHER -> CloseErr

\* newResponse treating 299 as a failure and dropping the response on a
\* status error
newResponseStrict(status, body, drainErr, toText, toJSON) ==
  IF ~IsNilErr(drainErr)
  THEN [resp |-> NilResp, err |-> drainErr, text |-> "unset", json |-> "unset"]
  ELSE IF status < 200 \/ status >= 299
  THEN [resp |-> NilResp, err |-> [kind |-> "status", msg |-> <<status>>],
        text |-> "unset", json |-> "unset"]
  ELSE [resp |-> [nil |-> FALSE, status |-> status, body |-> body],
        err |-> NilErr,
        text |-> IF toText THEN body ELSE "unset",
        json |-> IF toJSON THEN body ELSE "unset"]

\* newResponse(resp, opts) after the body was drained with error drainErr
newResponse(status, body, drainErr, toText, toJSON) ==
  LET r == [nil |-> FALSE, status |-> status, body |-> body] IN
  IF ~IsNilErr(drainErr)
  THEN [resp |-> NilResp, err |-> drainErr, text |-> "unset", json |-> "unset"]
  ELSE IF status < 200 \/ status > 299
  THEN [resp |-> r, err |-> [kind |-> "status", msg |-> <<status, body>>],
        text |-> "unset", json |-> "unset"]
  ELSE IF toJSON /\ ~JSONValid(body)
  THEN [resp |-> r, err |-> JSONErr,
        text |-> IF toText THEN body ELSE "unset", json |-> "unset"]
  ELSE [resp |-> r, err |-> NilErr,
        text |-> IF toText THEN body ELSE "unset",
        json |-> IF toJSON THEN body ELSE "unset"]

\* httputil.DumpResponse(resp, true): drainBody reads the network stream into
\* a buffer and closes it, and leaves an in-memory copy as resp.Body; a read
\* failure returns before the stream is closed
DumpOutcomes == {"ok", "readErr", "closeErr"}
DrainOutcomes == {"ok", "readErr", "closeErr"}

\* Client.do returning a fresh error and an empty Response on a transport
\* error
ClientDoWrapsError(o, dumped, drain, toText, toJSON) ==
  IF o.kind = "error"
  THEN [resp |-> [nil |-> FALSE, status |-> 0, body |-> ""],
        err |-> [kind |-> "transport", msg |-> <<"request failed">>],
        closes |-> 0, dump |-> FALSE, text |-> "unset", json |-> "unset"]
  ELSE LET nr == newResponse(o.status, o.body, readAndCloseBody(drain),
                             toText, toJSON)
       IN [resp |-> nr.resp, err |-> nr.err, closes |-> 1,
           dump |-> dumped = "ok", text |-> nr.text, json |-> nr.json]

\* Client.do dumping the response only once its status was found to be 2xx
ClientDoDumpsAfterStatus(o, dumped, drain, toText, toJSON) ==
  IF o.kind = "error"
  THEN [resp |-> NilResp, err |-> o.err, closes |-> 0, dump |-> FALSE,
        text |-> "unset", json |-> "unset"]
  ELSE IF dumped = "readErr"
  THEN [resp |-> NilResp, err |-> DumpRespErr, closes |-> 0, dump |-> FALSE,
        text |-> "unset", json |-> "unset"]
  ELSE IF dumped = "closeErr"
  THEN [resp |-> NilResp, err |-> DumpRespErr, closes |-> 1, dump |-> FALSE,
        text |-> "unset", json |-> "unset"]
  ELSE LET nr == newResponse(o.status, o.body, readAndCloseBody(drain),
                             toText, toJSON)
       IN [resp |-> nr.resp, err |-> nr.err, closes |-> 1,
           dump |-> dumped = "ok" /\ o.status >= 200 /\ o.status <= 299,
           text |-> nr.text, json |-> nr.json]

\* Client.do once c.client.Do has returned o: the error path, the optional
\* response dump, then newResponse.  closes counts the Close calls on the
\* network stream: one by drainBody when the dump went through (resp.Body is
\* an in-memory copy from then on), else the one of readAndCloseBody
ClientDo(o, dumped, drain, toText, toJSON) ==
  IF o.kind = "error"
  THEN [resp |-> NilResp, err |-> o.err, closes |-> 0, dump |-> FALSE,
        text |-> "unset", json |-> "unset"]
  ELSE IF dumped = "readErr"
  THEN [resp |-> NilResp, err |-> DumpRespErr, closes |-> 0, dump |-> FALSE,
        text |-> "unset", json |-> "unset"]
  ELSE IF dumped = "closeErr"
  THEN [resp |-> NilResp, err |-> DumpRespErr, closes |-> 1, dump |-> FALSE,
        text |-> "unset", json |-> "unset"]
  ELSE LET nr == newResponse(o.status, o.body, readAndCloseBody(drain),
                             toText, toJSON)
       IN [resp |-> nr.resp, err |-> nr.err, closes |-> 1,
           dump |-> dumped = "ok", text |-> nr.text, json |-> nr.json]

\* Client.do trying the round trip again after a transport error
DoReceiveRetries ==
  /\ pc = "inflight"
  /\ \E o \in RoundTripOutcomes(reqCtx, ctxDone) :
       LET d == ClientDo(o, "none", IF o.kind = "response" THEN "ok" ELSE "none",
                         call.toText, call.toJSON) IN
       /\ rt' = [kind |-> o.kind, status |-> o.status, body |-> o.body,
                 err |-> o.err, dumped |-> "none",
                 drain |-> IF o.kind = "response" THEN "ok" ELSE "none"]
       /\ result' = [resp |-> d.resp, err |-> d.err]
       /\ doRet' = [resp |-> d.resp, err |-> d.err]
       /\ closed' = closed + d.closes
       /\ sinks' = [sinks EXCEPT !.text = d.text, !.json = d.json]
       /\ pend' = IF o.kind = "error" /\ rtCalls < 2
                  THEN [t |-> "do", d |-> FinalDo]
                  ELSE [t |-> "ret"]
  /\ pc' = "chain"
  /\ UNCHANGED <<client, ncalls, call, reqCtx, ctx, ctxDone, stack, trace,
                 rtCalls>>
  /\ UNCHANGED <<optVars, restVars>>

\* the rest of Client.do: the round trip returns
DoReceive ==
  /\ pc = "inflight"
  /\ \E o \in RoundTripOutcomes(reqCtx, ctxDone) :
     \E dumped \in (IF o.kind = "response" /\ call.dump THEN DumpOutcomes
                    ELSE {"none"}) :
     \E drain \in (IF o.kind = "response" /\ dumped = "none"
                   THEN DrainOutcomes
                   ELSE IF dumped = "ok" THEN {"ok"} ELSE {"none"}) :
       LET d == ClientDo(o, dumped, drain, call.toText, call.toJSON) IN
       /\ rt' = [kind |-> o.kind, status |-> o.status, body |-> o.body,
                 err |-> o.err, dumped |-> dumped, drain |-> drain]
       /\ result' = [resp |-> d.resp, err |-> d.err]
       /\ doRet' = [resp |-> d.resp, err |-> d.err]
       /\ closed' = closed + d.closes
       /\ sinks' = [sinks EXCEPT !.resp = IF d.dump THEN "written" ELSE @,
                                 !.text = d.text, !.json = d.json]
  /\ pc' = "chain"
  /\ pend' = [t |-> "ret"]
  /\ UNCHANGED <<client, ncalls, call, reqCtx, ctx, ctxDone, stack, trace,
                 rtCalls>>
  /\ UNCHANGED <<optVars, restVars>>

\* the call has returned: its Options, Request and Response are dropped by the
\* caller, the client is ready for the next call
CallReturned ==
  /\ pc = "done"
  /\ pc' = "idle"
  /\ call' = NoCall
  /\ reqCtx' = "none"
  /\ ctx' = NoCtx
  /\ ctxDone' = FALSE
  /\ pend' = NoPend
  /\ stack' = <<>>
  /\ trace' = <<>>
  /\ rt' = NoRt
  /\ doRet' = NoResult
  /\ result' = NoResult
  /\ closed' = 0
  /\ rtCalls' = 0
  /\ sinks' = NoSinks
  /\ UNCHANGED <<client, ncalls>>
  /\ UNCHANGED <<optVars, restVars>>

\* ------------------------------------------------ dispatchers and newRequest
\* number of keys of a url.Values
NumKeys(values) == Cardinality({k \in DOMAIN values : values[k] # <<>>})

\* fmt.Sprintf("%v", data)
Sprint(data) == IF data.t = "string" THEN data.s
                ELSE IF data.i = 7 THEN "7" ELSE "0"

\* json.Marshal
Marshal(v) == IF v = "object" THEN [ok |-> TRUE, bytes |-> "{\"ID\":1}"]
              ELSE [ok |-> FALSE, bytes |-> ""]

\* url.Values.Encode: "k=v" pairs, sorted by key, the values of a key in order
SortedKeys(ks) ==
  CHOOSE sq \in Orders(ks) :
    \A i, j \in 1..Len(sq) : i < j => KeyIndex(sq[i]) < KeyIndex(sq[j])
RECURSIVE EncodeKeys(_, _)
EncodeKeys(values, keySeq) ==
  IF keySeq = <<>> THEN <<>>
  ELSE [i \in 1..Len(values[Head(keySeq)]) |->
          [k |-> Head(keySeq), v |-> values[Head(keySeq)][i]]]
       \o EncodeKeys(values, Tail(keySeq))
Encode(values) == EncodeKeys(values, SortedKeys(DOMAIN values))

\* url.ParseQuery, as the server's r.URL.Query() and r.ParseForm() do it
RECURSIVE ParsePairs(_, _)
ParsePairs(raw, acc) ==
  IF raw = <<>> THEN acc
  ELSE ParsePairs(Tail(raw), Add(acc, Head(raw).k, Head(raw).v))
ParseQuery(raw, keys) == ParsePairs(raw, EmptyValues(keys))

\* request copying opts.Body into a buffer and leaving the reader, now read to
\* its end, as the body to send
requestDrainsReader(o) ==
  LET body == [enc |-> "raw",
               data |-> IF o.Body # NoReader THEN o.Body.data ELSE ""]
  IN [ok |-> TRUE,
      opts |-> [o EXCEPT !.Body = IF o.Body # NoReader
                                  THEN [o.Body EXCEPT !.data = ""]
                                  ELSE NoReader],
      body |-> body]

\* request: the default dispatcher copies opts.Body into a buffer
request(o) ==
  LET body == [enc |-> "raw",
               data |-> IF o.Body # NoReader THEN o.Body.data ELSE ""]
  IN [ok |-> TRUE, opts |-> [o EXCEPT !.Body = body], body |-> body]

\* requestData leaving opts.Body as the caller set it
requestDataKeepsBody(o) ==
  LET body == [enc |-> "data",
               data |-> IF o.Data.t # "nil" THEN Sprint(o.Data) ELSE ""]
  IN [ok |-> TRUE, opts |-> o, body |-> body]

\* requestData
requestData(o) ==
  LET body == [enc |-> "data",
               data |-> IF o.Data.t # "nil" THEN Sprint(o.Data) ELSE ""]
  IN [ok |-> TRUE, opts |-> [o EXCEPT !.Body = body], body |-> body]

\* requestForm
requestForm(o) ==
  LET body == [enc |-> "form", data |-> Encode(o.Form)]
  IN [ok |-> TRUE,
      opts |-> [o EXCEPT !.Headers = HeaderSet(@, "Content-Type",
                                               FormContentType),
                         !.Body = body],
      body |-> body]

\* requestJSON adding its Content-Type to the values the caller gave
requestJSONAddsContentType(o) ==
  IF o.JSON # NoJSON /\ ~Marshal(o.JSON).ok
  THEN [ok |-> FALSE, opts |-> o, body |-> NoBody]
  ELSE LET body == [enc |-> "json",
                    data |-> IF o.JSON # NoJSON THEN Marshal(o.JSON).bytes
                             ELSE ""]
       IN [ok |-> TRUE,
           opts |-> [o EXCEPT !.Headers = HeaderAdd(@, "Content-Type",
                                                    JSONContentType),
                              !.Body = body],
           body |-> body]

\* requestJSON
requestJSON(o) ==
  IF o.JSON # NoJSON /\ ~Marshal(o.JSON).ok
  THEN [ok |-> FALSE, opts |-> o, body |-> NoBody]
  ELSE LET body == [enc |-> "json",
                    data |-> IF o.JSON # NoJSON THEN Marshal(o.JSON).bytes
                             ELSE ""]
       IN [ok |-> TRUE,
           opts |-> [o EXCEPT !.Headers = HeaderSet(@, "Content-Type",
                                                    JSONContentType),
                              !.Body = body],
           body |-> body]

\* requestFiles: one part per (field, file) of opts.Files
requestFiles(o) ==
  LET body == [enc |-> "multipart",
               data |-> {[field |-> f, file |-> o.Files[f]] :
                           f \in DOMAIN o.Files}]
  IN [ok |-> TRUE,
      opts |-> [o EXCEPT !.Headers = HeaderSet(@, "Content-Type",
                                               MultipartContentType),
                         !.Body = body],
      body |-> body]

\* the dispatcher chosen by the payload fields that are set, in the fixed
\* priority Data, Form, JSON, Files
dispatchersByField(o) ==
  IF o.Data # NoData THEN requestData(o)
  ELSE IF NumKeys(o.Form) # 0 THEN requestForm(o)
  ELSE IF o.JSON # NoJSON THEN requestJSON(o)
  ELSE IF DOMAIN o.Files # {} THEN requestFiles(o)
  ELSE request(o)

\* dispatchers[opts.bodyType]
dispatchers(o) ==
  CASE o.bodyType = bodyTypeDefault -> request(o)
    [] o.bodyType = bodyTypeData -> requestData(o)
    [] o.bodyType = bodyTypeForm -> requestForm(o)
    [] o.bodyType = bodyTypeJSON -> requestJSON(o)
    [] OTHER -> requestFiles(o)

\* newRequest refusing a URL with a literal '?' when parameters are given
newRequestRejectsBoth(o, body, u) ==
  IF ~u.valid \/ (u.hasQ /\ NumKeys(o.Params) # 0)
  THEN [NoWire EXCEPT !.state = "failed"]
  ELSE [state |-> "sent",
        headers |-> AddValues(EmptyValues(HeaderKeys), o.Headers),
        rawQuery |-> IF NumKeys(o.Params) # 0
                     THEN Encode(AddValues(ParseQuery(u.raw, ParamKeys),
                                           o.Params))
                     ELSE u.raw,
        body |-> o.Body,
        bytes |-> body]

\* newRequest building the query from the parameters alone
newRequestDropsLiteral(o, body, u) ==
  IF ~u.valid
  THEN [NoWire EXCEPT !.state = "failed"]
  ELSE [state |-> "sent",
        headers |-> AddValues(EmptyValues(HeaderKeys), o.Headers),
        rawQuery |-> IF NumKeys(o.Params) # 0
                     THEN Encode(AddValues(EmptyValues(ParamKeys), o.Params))
                     ELSE u.raw,
        body |-> o.Body,
        bytes |-> body]

\* newRequest(method, url, opts, body) for the URL string u: http.NewRequest
\* parses the URL and takes opts.Body as the body to send; the parameters are
\* added to the query the URL already carries; body is what Request.Bytes()
\* returns
newRequest(o, body, u) ==
  IF ~u.valid
  THEN [NoWire EXCEPT !.state = "failed"]
  ELSE [state |-> "sent",
        headers |-> AddValues(EmptyValues(HeaderKeys), o.Headers),
        rawQuery |-> IF NumKeys(o.Params) # 0
                     THEN Encode(AddValues(ParseQuery(u.raw, ParamKeys),
                                           o.Params))
                     ELSE u.raw,
        body |-> o.Body,
        bytes |-> body]

\* callMethod(method, u, options...) after parseOptions: the dispatcher of the
\* body type encodes the body and the request is built
DispatchUrl(u) ==
  /\ wire.state = "none"
  /\ LET d == dispatchers(opts) IN
       /\ opts' = d.opts
       /\ wire' = IF d.ok
                  THEN newRequest(d.opts, d.body, u)
                  ELSE [NoWire EXCEPT !.state = "failed"]
  /\ url' = u
  /\ UNCHANGED <<nopts, supplied, last, seen, served>>
  /\ UNCHANGED <<pipeVars, extraVars>>

\* a call on a URL without a query
Dispatch == DispatchUrl(PlainUrl)

\* a call on any URL
DispatchAny == \E u \in Urls : DispatchUrl(u)

\* a per-call interceptor as in TestInterceptors: it reads r.Bytes() and sets
\* a header on the request before it calls do
Intercept ==
  /\ wire.state = "sent"
  /\ ~seen.read
  /\ ~served.got
  /\ seen' = [read |-> TRUE, bytes |-> wire.bytes]
  /\ wire' = [wire EXCEPT !.headers = HeaderSet(@, IcptHeader, "len(r.Bytes())")]
  /\ UNCHANGED <<opts, nopts, supplied, last, url, served>>
  /\ UNCHANGED <<pipeVars, extraVars>>

\* the round trip: the server reads the header, the query and the body of the
\* request it is sent
RoundTrip ==
  /\ wire.state = "sent"
  /\ ~served.got
  /\ served' = [got |-> TRUE, headers |-> wire.headers,
                query |-> ParseQuery(wire.rawQuery, ParamKeys),
                body |-> wire.body]
  /\ UNCHANGED <<opts, nopts, supplied, last, wire, url, seen>>
  /\ UNCHANGED <<pipeVars, extraVars>>

InitOpts ==
  /\ Init
  /\ client = NewClient(0)

NextOpts ==
  \/ Headers
  \/ HeaderPairs
  \/ Params
  \/ ParamPairs
  \/ Form
  \/ FormPairs
  \/ Body
  \/ Data
  \/ JSON
  \/ Files
  \/ Dispatch

SpecOpts == InitOpts /\ [][NextOpts]_vars

\* one call with at most MaxSendOpts options on any URL, through a per-call
\* interceptor or without one, up to the server
MaxSendOpts == MaxOpts - 1
NextSend ==
  \/ (nopts < MaxSendOpts /\ Headers)
  \/ (nopts < MaxSendOpts /\ HeaderPairs)
  \/ (nopts < MaxSendOpts /\ Params)
  \/ (nopts < MaxSendOpts /\ ParamPairs)
  \/ (nopts < MaxSendOpts /\ Form)
  \/ (nopts < MaxSendOpts /\ FormPairs)
  \/ (nopts < MaxSendOpts /\ Body)
  \/ (nopts < MaxSendOpts /\ Data)
  \/ (nopts < MaxSendOpts /\ JSON)
  \/ (nopts < MaxSendOpts /\ Files)
  \/ DispatchAny
  \/ Intercept
  \/ RoundTrip

SpecSend == InitOpts /\ [][NextSend]_vars

\* ------------------------------------------------ the pairs constructors
\* values given to a pairs option
PairVals == {"a1", "a2"}
PairKinds == {"HeaderPairs", "ParamPairs", "FormPairs"}
PairKeys(kind) ==
  CASE kind = "HeaderPairs" -> HeaderRaw
    [] kind = "ParamPairs" -> ParamKeys
    [] OTHER -> FormKeys
\* the argument lists kv of a pairs option: any length up to one beyond
\* MaxPairs pairs, keys and values alternating
PairArgs(kind) ==
  UNION {{kv \in [1..len -> PairKeys(kind) \cup PairVals] :
            \A i \in 1..len : IF i % 2 = 1 THEN kv[i] \in PairKeys(kind)
                                           ELSE kv[i] \in PairVals} :
         len \in 0..(2 * MaxPairs + 1)}

\* the test on len(kv) left out
OddPairsUnchecked(kv) == FALSE

\* len(kv)%2 == 1
OddPairs(kv) == Len(kv) % 2 = 1

\* the http.Header or url.Values a pairs constructor builds from kv
PairValues(kind, kv) ==
  CASE kind = "HeaderPairs" ->
         PairsLoop(kv, 0, "", EmptyValues(HeaderKeys), TRUE)
    [] kind = "ParamPairs" ->
         PairsLoop(kv, 0, "", EmptyValues(ParamKeys), FALSE)
    [] OTHER ->
         PairsLoop(kv, 0, "", EmptyValues(FormKeys), FALSE)

\* HeaderPairs(kv...) / ParamPairs(kv...) / FormPairs(kv...) is evaluated, as
\* an argument of the call, before the call itself: it panics or returns the
\* option
ConstructPairs ==
  /\ ctor.state = "args"
  /\ ctor' = [ctor EXCEPT !.state = IF OddPairs(ctor.kv) THEN "panicked"
                                    ELSE "built"]
  /\ UNCHANGED <<pipeVars, optVars, sendVars, built, env, heap, conc, moreVars>>

\* parseOptions runs the option that was built
ApplyPairs ==
  /\ ctor.state = "built"
  /\ wire.state = "none"
  /\ ctor' = [ctor EXCEPT !.state = "applied"]
  /\ opts' =
       CASE ctor.kind = "HeaderPairs" ->
              [opts EXCEPT !.Headers = AddValues(@, PairValues(ctor.kind, ctor.kv))]
         [] ctor.kind = "ParamPairs" ->
              [opts EXCEPT !.Params = AddValues(@, PairValues(ctor.kind, ctor.kv))]
         [] OTHER ->
              [opts EXCEPT !.Form = AddValues(@, PairValues(ctor.kind, ctor.kv)),
                           !.bodyType = bodyTypeForm]
  /\ last' = IF ctor.kind = "FormPairs"
             THEN [variant |-> bodyTypeForm, payload |-> NoReader]
             ELSE last
  /\ nopts' = nopts + 1
  /\ UNCHANGED <<supplied, wire>>
  /\ UNCHANGED <<pipeVars, sendVars, built, env, heap, conc, moreVars>>

InitPairs ==
  /\ InitCall
  /\ client = NewClient(0)
  /\ \E kind \in PairKinds : \E kv \in PairArgs(kind) :
       ctor = [kind |-> kind, kv |-> kv, state |-> "args"]
  /\ built = NoBuilt
  /\ InitEnv
  /\ rbody = NoRbody
  /\ redir = NoRedir
  /\ envIcpt = NoEnvIcpt
  /\ dflt = NoDflt
  /\ cmaps = NoCmaps
  /\ ictx = NoIctx

\* one call given one pairs option, up to the server
NextPairs ==
  \/ ConstructPairs
  \/ ApplyPairs
  \/ (ctor.state = "applied" /\ Dispatch)
  \/ (ctor.state = "applied" /\ RoundTrip)

SpecPairs == InitPairs /\ [][NextPairs]_vars

\* ---------------------------------------------------------------- NewClient
\* setters given to one NewClient call
MaxSetters == 3
\* Timeout of the http.Client of newDefaultClient, in seconds
DefaultClientTimeout == 10
\* a timeout some caller passes to WithTimeout, in seconds
SomeTimeout == DefaultClientTimeout \div 2
ClientOptions ==
  {[s |-> "WithTimeout", d |-> 0, t |-> "nil"],
   [s |-> "WithTimeout", d |-> SomeTimeout, t |-> "nil"],
   [s |-> "WithTransport", d |-> 0, t |-> "custom"],
   [s |-> "WithInterceptor", d |-> 0, t |-> "nil"]}

\* newDefaultClient
newDefaultClient ==
  [Timeout |-> DefaultClientTimeout, Transport |-> "nil",
   interceptor |-> NilIcpt]

\* NewClient(setters...): client := newDefaultClient()
NewClientStart ==
  /\ built.stage = "args"
  /\ built' = [built EXCEPT !.stage = "setters", !.client = newDefaultClient]
  /\ UNCHANGED <<pipeVars, optVars, sendVars, ctor, env, heap, conc, moreVars>>

\* the next setter of the loop, when it is a WithTimeout
WithTimeout ==
  /\ built.stage = "setters"
  /\ built.setters # <<>>
  /\ Head(built.setters).s = "WithTimeout"
  /\ built' = [built EXCEPT !.client.Timeout = Head(built.setters).d,
                            !.setters = Tail(@),
                            !.timeoutSet = TRUE]
  /\ UNCHANGED <<pipeVars, optVars, sendVars, ctor, env, heap, conc, moreVars>>

\* the next setter of the loop, when it is a WithTransport
WithTransport ==
  /\ built.stage = "setters"
  /\ built.setters # <<>>
  /\ Head(built.setters).s = "WithTransport"
  /\ built' = [built EXCEPT !.client.Transport = Head(built.setters).t,
                            !.setters = Tail(@)]
  /\ UNCHANGED <<pipeVars, optVars, sendVars, ctor, env, heap, conc, moreVars>>

\* the next setter of the loop, when it is a WithInterceptor
WithInterceptor ==
  /\ built.stage = "setters"
  /\ built.setters # <<>>
  /\ Head(built.setters).s = "WithInterceptor"
  /\ built' = [built EXCEPT !.client.interceptor = Leaf(1),
                            !.setters = Tail(@)]
  /\ UNCHANGED <<pipeVars, optVars, sendVars, ctor, env, heap, conc, moreVars>>

\* NewClient returns the client once every setter ran
NewClientReturn ==
  /\ built.stage = "setters"
  /\ built.setters = <<>>
  /\ built' = [built EXCEPT !.stage = "done"]
  /\ UNCHANGED <<pipeVars, optVars, sendVars, ctor, env, heap, conc, moreVars>>

InitClient ==
  /\ InitCall
  /\ client = NewClient(0)
  /\ ctor = NoCtor
  /\ \E len \in 0..MaxSetters : \E setters \in [1..len -> ClientOptions] :
       built = [stage |-> "args", setters |-> setters, client |-> NoConfig,
                timeoutSet |-> FALSE]
  /\ InitEnv
  /\ rbody = NoRbody
  /\ redir = NoRedir
  /\ envIcpt = NoEnvIcpt
  /\ dflt = NoDflt
  /\ cmaps = NoCmaps
  /\ ictx = NoIctx

NextClient ==
  \/ NewClientStart
  \/ WithTimeout
  \/ WithTransport
  \/ WithInterceptor
  \/ NewClientReturn

SpecClient == InitClient /\ [][NextClient]_vars

\* ------------------------------------------------- selection of a transport
\* SetHostTransport(rts)
SetHostTransport ==
  /\ \E rts \in [Hosts -> HostRoundTrippers] :
       env' = [env EXCEPT !.hostRoundTrippers = rts]
  /\ UNCHANGED <<pipeVars, optVars, sendVars, ctor, built, heap, conc, moreVars>>

\* a call enters do with its resolved options and the host of its request
DoStart(i) ==
  /\ conc[i].pc = "idle"
  /\ \E r \in CallRoundTrippers, d \in BOOLEAN, h \in Hosts :
       conc' = [conc EXCEPT ![i] = [@ EXCEPT !.pc = "select",
                                             !.RoundTripper = r,
                                             !.DisableKeepAlives = d,
                                             !.host = h]]
  /\ UNCHANGED <<pipeVars, optVars, sendVars, ctor, built, env, heap, moreVars>>

\* the branches of do tried with keep-alives before the host
selectRoundTripperKeepAlivesFirst(callRt, hostRt, disableKeepAlives, shared) ==
  IF callRt # "nil" THEN callRt
  ELSE IF disableKeepAlives THEN "clone"
  ELSE IF hostRt # "nil" THEN hostRt
  ELSE shared

\* the branches of do that choose roundTripper; "clone" stands for the branch
\* that clones env.transport
selectRoundTripper(callRt, hostRt, disableKeepAlives, shared) ==
  IF callRt # "nil" THEN callRt
  ELSE IF hostRt # "nil" THEN hostRt
  ELSE IF disableKeepAlives THEN "clone"
  ELSE shared

\* do reads opts.RoundTripper, then env.hostRoundTrippers[req.Host], then
\* opts.DisableKeepAlives
SelectTransport(i) ==
  /\ conc[i].pc = "select"
  /\ LET c == conc[i]
         hostRt == IF c.RoundTripper # "nil" THEN "nil"
                   ELSE env.hostRoundTrippers[c.host]
         chosen == selectRoundTripper(c.RoundTripper, hostRt,
                                      c.DisableKeepAlives, env.transport)
     IN conc' = [conc EXCEPT ![i] =
                   IF chosen = "clone"
                   THEN [c EXCEPT !.pc = "clone", !.rt = hostRt]
                   ELSE [c EXCEPT !.pc = "send", !.rt = hostRt,
                                  !.roundTripper = chosen]]
  /\ UNCHANGED <<pipeVars, optVars, sendVars, ctor, built, env, heap, moreVars>>

\* transport := env.transport, without a clone
CloneTransportAliases(i) ==
  /\ conc[i].pc = "clone"
  /\ conc' = [conc EXCEPT ![i] = [@ EXCEPT !.pc = "setflag",
                                           !.transport = env.transport]]
  /\ UNCHANGED <<pipeVars, optVars, sendVars, ctor, built, env, heap, moreVars>>

\* transport := env.transport.Clone(): a new object with the fields of the
\* shared one as they are now
CloneTransport(i) ==
  /\ conc[i].pc = "clone"
  /\ heap' = [heap EXCEPT ![CloneId(i)] =
                [allocated |-> TRUE,
                 DisableKeepAlives |-> heap[env.transport].DisableKeepAlives]]
  /\ conc' = [conc EXCEPT ![i] = [@ EXCEPT !.pc = "setflag",
                                           !.transport = CloneId(i)]]
  /\ UNCHANGED <<pipeVars, optVars, sendVars, ctor, built, env, moreVars>>

\* transport.DisableKeepAlives = true; roundTripper = transport
SetDisableKeepAlives(i) ==
  /\ conc[i].pc = "setflag"
  /\ heap' = [heap EXCEPT ![conc[i].transport].DisableKeepAlives = TRUE]
  /\ conc' = [conc EXCEPT ![i] = [@ EXCEPT !.pc = "send",
                                           !.roundTripper = conc[i].transport]]
  /\ UNCHANGED <<pipeVars, optVars, sendVars, ctor, built, env, moreVars>>

\* client.Do(ctx, req) on an http.Client whose Transport is roundTripper: the
\* round trip runs on that transport with the fields it has then
ClientSend(i) ==
  /\ conc[i].pc = "send"
  /\ conc' = [conc EXCEPT ![i] =
                [@ EXCEPT !.pc = "done",
                          !.used = [rt |-> conc[i].roundTripper,
                                    keepAlivesDisabled |->
                                      IF conc[i].roundTripper \in TransportIds
                                      THEN heap[conc[i].roundTripper].DisableKeepAlives
                                      ELSE FALSE]]]
  /\ UNCHANGED <<pipeVars, optVars, sendVars, ctor, built, env, heap, moreVars>>

InitTransport ==
  /\ InitCall
  /\ client = NewClient(0)
  /\ ctor = NoCtor
  /\ built = NoBuilt
  /\ InitEnv
  /\ rbody = NoRbody
  /\ redir = NoRedir
  /\ envIcpt = NoEnvIcpt
  /\ dflt = NoDflt
  /\ cmaps = NoCmaps
  /\ ictx = NoIctx

\* MaxConc calls in do at the same time, host overrides registered at any time
NextTransport ==
  \/ SetHostTransport
  \/ \E i \in 1..MaxConc : DoStart(i)
  \/ \E i \in 1..MaxConc : SelectTransport(i)
  \/ \E i \in 1..MaxConc : CloneTransport(i)
  \/ \E i \in 1..MaxConc : SetDisableKeepAlives(i)
  \/ \E i \in 1..MaxConc : ClientSend(i)

SpecTransport == InitTransport /\ [][NextTransport]_vars

\* ------------------------------------- an interceptor that derives a context
\* what an interceptor derives from the context it is given before it calls
\* do: a deadline, a cancel function, or a client trace
DerivedKinds == {"deadline", "cancel", "trace"}
deriveCtx(c, kind) ==
  CASE kind = "deadline" -> [c EXCEPT !.deadline = TRUE]
    [] kind = "cancel" -> [c EXCEPT !.cancellable = TRUE]
    [] OTHER -> c

\* Client.request built the request and invokes the interceptor with ctx
IcptInvoked ==
  /\ ictx.pc = "idle"
  /\ \E cc \in BOOLEAN, timeout \in {0, 1} :
       ictx' = [ictx EXCEPT !.pc = "icpt",
                            !.ctx = callCtx(cc, timeout),
                            !.reqCtx = "background"]
  /\ UNCHANGED <<pipeVars, optVars, sendVars, ctor, built, env, heap, conc,
                 rbody, redir, envIcpt, dflt, cmaps>>

\* the interceptor derives newCtx from ctx and calls do(newCtx, r); do enters
\* c.client.Do(r.Request)
IcptCallsDo ==
  /\ ictx.pc = "icpt"
  /\ \E kind \in DerivedKinds :
       ictx' = [ictx EXCEPT !.pc = "inflight", !.kind = kind,
                            !.passed = deriveCtx(ictx.ctx, kind)]
  /\ UNCHANGED <<pipeVars, optVars, sendVars, ctor, built, env, heap, conc,
                 rbody, redir, envIcpt, dflt, cmaps>>

\* newCtx is cancelled or expires while the round trip is in flight
NewCtxDone ==
  /\ ictx.pc = "inflight"
  /\ ictx.passed.cancellable \/ ictx.passed.deadline
  /\ ~ictx.done
  /\ ictx' = [ictx EXCEPT !.done = TRUE]
  /\ UNCHANGED <<pipeVars, optVars, sendVars, ctor, built, env, heap, conc,
                 rbody, redir, envIcpt, dflt, cmaps>>

\* c.client.Do(r.Request) returns
IcptDoReturns ==
  /\ ictx.pc = "inflight"
  /\ \E o \in RoundTripOutcomes(ictx.reqCtx, ictx.done) :
       ictx' = [ictx EXCEPT !.pc = "done",
                            !.out = [kind |-> o.kind, status |-> o.status,
                                     body |-> o.body, err |-> o.err,
                                     dumped |-> "none", drain |-> "none"]]
  /\ UNCHANGED <<pipeVars, optVars, sendVars, ctor, built, env, heap, conc,
                 rbody, redir, envIcpt, dflt, cmaps>>

InitCtx ==
  /\ InitCall
  /\ client = NewClient(1)
  /\ InitIdle
  /\ rbody = NoRbody
  /\ redir = NoRedir
  /\ envIcpt = NoEnvIcpt
  /\ dflt = NoDflt
  /\ cmaps = NoCmaps
  /\ ictx = NoIctx

NextCtx ==
  \/ IcptInvoked
  \/ IcptCallsDo
  \/ NewCtxDone
  \/ IcptDoReturns

SpecCtx == InitCtx /\ [][NextCtx]_vars

\* ---------------------------------------------------------------- redirects
\* requests already made when a redirect is checked
MaxVia == 2
\* Authorization values a request can carry: none, an empty one, one, two
AuthValues == {<<>>, <<"">>, <<"Basic a">>, <<"Basic b", "Basic a">>}
RedirectHeaders ==
  {[k \in RedirectKeys |-> IF k = "Authorization" THEN a ELSE x] :
     a \in AuthValues, x \in {<<>>, <<"v">>}}
ViaError == [kind |-> "redirect", msg |-> <<"via's len should not be 0">>]

\* http.Header.Get: the first value of the key, "" without one
HeaderGet(h, key) ==
  IF h[CanonicalHeaderKey(key)] = <<>> THEN ""
  ELSE h[CanonicalHeaderKey(key)][1]

\* RedirectPolicyFunc taking the Authorization of the latest request
RedirectPolicyFuncLatest(req, via) ==
  IF Len(via) = 0
  THEN [err |-> ViaError, req |-> req]
  ELSE LET authorization == HeaderGet(via[Len(via)], "Authorization") IN
       [err |-> NilErr,
        req |-> IF authorization # ""
                THEN HeaderAdd(req, "Authorization", authorization)
                ELSE req]

\* RedirectPolicyFunc(req, via): the header of req after the call, and the
\* error returned
RedirectPolicyFunc(req, via) ==
  IF Len(via) = 0
  THEN [err |-> ViaError, req |-> req]
  ELSE LET authorization == HeaderGet(via[1], "Authorization") IN
       [err |-> NilErr,
        req |-> IF authorization # ""
                THEN HeaderAdd(req, "Authorization", authorization)
                ELSE req]

\* the http.Client calls CheckRedirect for the next request of the chain
CheckRedirect ==
  /\ redir.state = "args"
  /\ LET r == RedirectPolicyFunc(redir.req, redir.via) IN
       redir' = [redir EXCEPT !.state = "returned", !.out = r.req,
                              !.err = r.err]
  /\ UNCHANGED <<pipeVars, optVars, sendVars, ctor, built, env, heap, conc,
                 rbody, envIcpt, dflt, cmaps, ictx>>

InitRedirect ==
  /\ InitCall
  /\ client = NewClient(0)
  /\ InitIdle
  /\ rbody = NoRbody
  /\ \E len \in 0..MaxVia : \E via \in [1..len -> RedirectHeaders] :
       \E req \in RedirectHeaders :
         redir = [state |-> "args", via |-> via, req |-> req,
                  out |-> EmptyValues(RedirectKeys), err |-> NilErr]
  /\ envIcpt = NoEnvIcpt
  /\ dflt = NoDflt
  /\ cmaps = NoCmaps
  /\ ictx = NoIctx

NextRedirect == CheckRedirect

SpecRedirect == InitRedirect /\ [][NextRedirect]_vars

\* ------------------------------------------------- the body of a Response
\* Bytes / Text / JSON / Body.Close calls a caller makes on one Response
MaxAccess == 3

\* io.ReadAll on the network stream: what is left of it
ReadAll(r) == IF r.atEnd THEN "" ELSE r.data

\* newResponse: readAndCloseBody drains the stream into r.body and closes it;
\* when that fails the caller gets no Response
NewResponseDrains ==
  /\ rbody.state = "arrived"
  /\ \E drain \in DrainOutcomes :
       rbody' = [rbody EXCEPT
                   !.state = IF IsNilErr(readAndCloseBody(drain)) THEN "held"
                             ELSE "nil",
                   !.drain = drain,
                   !.body = IF drain = "readErr" THEN "" ELSE ReadAll(rbody),
                   !.atEnd = drain # "readErr",
                   !.reads = @ + 1,
                   !.closes = @ + 1]
  /\ UNCHANGED <<pipeVars, optVars, sendVars, ctor, built, env, heap, conc,
                 redir, envIcpt, dflt, cmaps, ictx>>

\* Bytes reading the stream whenever it is called
BytesReadsStream ==
  /\ rbody.state = "held"
  /\ rbody.calls < MaxAccess
  /\ rbody' = [rbody EXCEPT !.rets = Append(@, [op |-> "Bytes",
                                                bytes |-> ReadAll(rbody)]),
                            !.atEnd = TRUE,
                            !.reads = @ + 1,
                            !.calls = @ + 1]
  /\ UNCHANGED <<pipeVars, optVars, sendVars, ctor, built, env, heap, conc,
                 redir, envIcpt, dflt, cmaps, ictx>>

\* Response.Bytes
Bytes ==
  /\ rbody.state = "held"
  /\ rbody.calls < MaxAccess
  /\ rbody' = [rbody EXCEPT !.rets = Append(@, [op |-> "Bytes",
                                                bytes |-> rbody.body]),
                            !.calls = @ + 1]
  /\ UNCHANGED <<pipeVars, optVars, sendVars, ctor, built, env, heap, conc,
                 redir, envIcpt, dflt, cmaps, ictx>>

\* Response.Text
Text ==
  /\ rbody.state = "held"
  /\ rbody.calls < MaxAccess
  /\ rbody' = [rbody EXCEPT !.rets = Append(@, [op |-> "Text",
                                                bytes |-> rbody.body]),
                            !.calls = @ + 1]
  /\ UNCHANGED <<pipeVars, optVars, sendVars, ctor, built, env, heap, conc,
                 redir, envIcpt, dflt, cmaps, ictx>>

\* Response.JSON(v): json.Unmarshal of r.body
ResponseJSON ==
  /\ rbody.state = "held"
  /\ rbody.calls < MaxAccess
  /\ rbody' = [rbody EXCEPT !.rets = Append(@, [op |-> "JSON",
                                                bytes |-> rbody.body]),
                            !.calls = @ + 1]
  /\ UNCHANGED <<pipeVars, optVars, sendVars, ctor, built, env, heap, conc,
                 redir, envIcpt, dflt, cmaps, ictx>>

\* the caller closes the body of the embedded http.Response once more
BodyClose ==
  /\ rbody.state = "held"
  /\ rbody.calls < MaxAccess
  /\ rbody' = [rbody EXCEPT !.closes = @ + 1, !.calls = @ + 1]
  /\ UNCHANGED <<pipeVars, optVars, sendVars, ctor, built, env, heap, conc,
                 redir, envIcpt, dflt, cmaps, ictx>>

InitResponse ==
  /\ InitCall
  /\ client = NewClient(0)
  /\ InitIdle
  /\ \E b \in Bodies :
       rbody = [NoRbody EXCEPT !.state = "arrived", !.data = b]
  /\ redir = NoRedir
  /\ envIcpt = NoEnvIcpt
  /\ dflt = NoDflt
  /\ cmaps = NoCmaps
  /\ ictx = NoIctx

NextResponse ==
  \/ NewResponseDrains
  \/ Bytes
  \/ Text
  \/ ResponseJSON
  \/ BodyClose

SpecResponse == InitResponse /\ [][NextResponse]_vars

\* ------------------------------------------- interceptors of the environment
\* calls of the package-level WithInterceptor
MaxRegs == 3
\* interceptors handed to one call of it
MaxArgs == 2

\* the interceptors of the tests
InterceptorNames == {"log", "metric"}

\* the argument lists of one WithInterceptor call
InterceptorArgs ==
  UNION {[1..n -> {Leaf(x) : x \in InterceptorNames}] : n \in 0..MaxArgs}

RECURSIVE RunInterceptor(_, _)
RECURSIVE RunDo(_)
\* the interceptors that run, in order, when f is called with do and each
\* interceptor calls the do it is given
RunInterceptor(f, do) ==
  IF f.kind = "leaf"
  THEN <<f.id>> \o RunDo(do)
  ELSE RunInterceptor(f.ints[1], getChainDo(f.ints, 0, do))

\* the interceptors that run when a do is called
RunDo(do) ==
  IF do.kind = "final"
  THEN <<>>
  ELSE RunInterceptor(do.ints[do.curr + 2],
                      getChainDo(do.ints, do.curr + 1, do.finalDo))

\* a request through the environment's interceptor, if there is one
RunEnv(f) == IF f.kind = "nil" THEN <<>> ELSE RunInterceptor(f, FinalDo)

\* WithInterceptor forgetting the interceptor the environment holds
EnvWithInterceptorReplaces ==
  /\ envIcpt.calls < MaxRegs
  /\ \E interceptors \in InterceptorArgs :
       envIcpt' = [envIcpt EXCEPT
                     !.interceptor = ChainInterceptors(interceptors),
                     !.registered = @ \o [i \in 1..Len(interceptors) |->
                                            interceptors[i].id],
                     !.calls = @ + 1,
                     !.args = interceptors,
                     !.prev = envIcpt.interceptor,
                     !.invoked = FALSE,
                     !.ran = <<>>]
  /\ UNCHANGED <<pipeVars, optVars, sendVars, ctor, built, env, heap, conc,
                 rbody, redir, dflt, cmaps, ictx>>

\* the package-level WithInterceptor(interceptors...)
EnvWithInterceptor ==
  /\ envIcpt.calls < MaxRegs
  /\ \E interceptors \in InterceptorArgs :
       LET all == IF envIcpt.interceptor.kind # "nil"
                  THEN <<envIcpt.interceptor>> \o interceptors
                  ELSE interceptors
       IN envIcpt' = [envIcpt EXCEPT
                        !.interceptor = ChainInterceptors(all),
                        !.registered = @ \o [i \in 1..Len(interceptors) |->
                                               interceptors[i].id],
                        !.calls = @ + 1,
                        !.args = interceptors,
                        !.prev = envIcpt.interceptor,
                        !.invoked = FALSE,
                        !.ran = <<>>]
  /\ UNCHANGED <<pipeVars, optVars, sendVars, ctor, built, env, heap, conc,
                 rbody, redir, dflt, cmaps, ictx>>

\* a request goes through env.interceptor, every interceptor calling its do
EnvInvoke ==
  /\ ~envIcpt.invoked
  /\ envIcpt' = [envIcpt EXCEPT !.invoked = TRUE,
                                !.ran = RunEnv(envIcpt.interceptor)]
  /\ UNCHANGED <<pipeVars, optVars, sendVars, ctor, built, env, heap, conc,
                 rbody, redir, dflt, cmaps, ictx>>

InitEnvIcpt ==
  /\ InitCall
  /\ client = NewClient(0)
  /\ InitIdle
  /\ rbody = NoRbody
  /\ redir = NoRedir
  /\ envIcpt = NoEnvIcpt
  /\ dflt = NoDflt
  /\ cmaps = NoCmaps
  /\ ictx = NoIctx

NextEnvIcpt ==
  \/ EnvWithInterceptor
  \/ EnvInvoke

SpecEnvIcpt == InitEnvIcpt /\ [][NextEnvIcpt]_vars

\* ------------------------------------------------------- the default client
\* goroutines calling into the package at the same time
MaxGoroutines == 2

Goroutines == 1..MaxGoroutines

\* the package-level functions that reach getDefaultClient
EntryPoints == {"Get", "Post", "Put", "Patch", "Delete", "InitDefaultClient"}

\* one goroutine takes a step
GoStep(g, next) == dflt' = [dflt EXCEPT !.g[g] = next]

\* Get, Post, Put, Patch, Delete or InitDefaultClient calls getDefaultClient
EntryCall(g) ==
  /\ dflt.g[g].pc = "idle"
  /\ \E e \in EntryPoints :
       GoStep(g, [dflt.g[g] EXCEPT !.pc = "once", !.entry = e])
  /\ UNCHANGED <<pipeVars, optVars, sendVars, ctor, built, env, heap, conc,
                 rbody, redir, envIcpt, cmaps, ictx>>

\* once.Do: the load of done outside the lock
OnceDo(g) ==
  /\ dflt.g[g].pc = "once"
  /\ GoStep(g, [dflt.g[g] EXCEPT !.pc = IF dflt.done THEN "return"
                                        ELSE "lock",
                                 !.slow = ~dflt.done])
  /\ UNCHANGED <<pipeVars, optVars, sendVars, ctor, built, env, heap, conc,
                 rbody, redir, envIcpt, cmaps, ictx>>

\* once.Do: the slow path takes the mutex of the Once
OnceLock(g) ==
  /\ dflt.g[g].pc = "lock"
  /\ dflt.mu = 0
  /\ dflt' = [dflt EXCEPT !.mu = g, !.g[g].pc = "locked"]
  /\ UNCHANGED <<pipeVars, optVars, sendVars, ctor, built, env, heap, conc,
                 rbody, redir, envIcpt, cmaps, ictx>>

\* once.Do running its function without looking at done again
OnceLockedNoRecheck(g) ==
  /\ dflt.g[g].pc = "locked"
  /\ GoStep(g, [dflt.g[g] EXCEPT !.pc = "f"])
  /\ UNCHANGED <<pipeVars, optVars, sendVars, ctor, built, env, heap, conc,
                 rbody, redir, envIcpt, cmaps, ictx>>

\* once.Do: under the mutex, done is looked at again
OnceLocked(g) ==
  /\ dflt.g[g].pc = "locked"
  /\ GoStep(g, [dflt.g[g] EXCEPT !.pc = IF dflt.done THEN "unlock" ELSE "f"])
  /\ UNCHANGED <<pipeVars, optVars, sendVars, ctor, built, env, heap, conc,
                 rbody, redir, envIcpt, cmaps, ictx>>

\* the function given to once.Do: defaultClient = newDefaultClient()
SetDefaultClient(g) ==
  /\ dflt.g[g].pc = "f"
  /\ dflt' = [dflt EXCEPT !.defaultClient = dflt.constructed + 1,
                          !.constructed = @ + 1,
                          !.g[g].pc = "store"]
  /\ UNCHANGED <<pipeVars, optVars, sendVars, ctor, built, env, heap, conc,
                 rbody, redir, envIcpt, cmaps, ictx>>

\* once.Do: done is set when the function has returned
OnceStore(g) ==
  /\ dflt.g[g].pc = "store"
  /\ dflt' = [dflt EXCEPT !.done = TRUE, !.g[g].pc = "unlock"]
  /\ UNCHANGED <<pipeVars, optVars, sendVars, ctor, built, env, heap, conc,
                 rbody, redir, envIcpt, cmaps, ictx>>

\* once.Do: the mutex is released
OnceUnlock(g) ==
  /\ dflt.g[g].pc = "unlock"
  /\ dflt' = [dflt EXCEPT !.mu = 0, !.g[g].pc = "return"]
  /\ UNCHANGED <<pipeVars, optVars, sendVars, ctor, built, env, heap, conc,
                 rbody, redir, envIcpt, cmaps, ictx>>

\* getDefaultClient returns defaultClient to the entry point
getDefaultClient(g) ==
  /\ dflt.g[g].pc = "return"
  /\ GoStep(g, [dflt.g[g] EXCEPT !.pc = "done",
                                 !.seen = dflt.defaultClient])
  /\ UNCHANGED <<pipeVars, optVars, sendVars, ctor, built, env, heap, conc,
                 rbody, redir, envIcpt, cmaps, ictx>>

InitDefault ==
  /\ InitCall
  /\ client = NewClient(0)
  /\ InitIdle
  /\ rbody = NoRbody
  /\ redir = NoRedir
  /\ envIcpt = NoEnvIcpt
  /\ dflt = [NoDflt EXCEPT !.g = [g \in Goroutines |-> NoGoroutine]]
  /\ cmaps = NoCmaps
  /\ ictx = NoIctx

NextDefault ==
  \E g \in Goroutines :
    \/ EntryCall(g)
    \/ OnceDo(g)
    \/ OnceLock(g)
    \/ OnceLocked(g)
    \/ SetDefaultClient(g)
    \/ OnceStore(g)
    \/ OnceUnlock(g)
    \/ getDefaultClient(g)

SpecDefault == InitDefault /\ [][NextDefault]_vars

\* --------------------------------------------- the maps a caller hands over
\* maps the caller builds
MaxMaps == 2
\* map options in one call
MaxMapOpts == 2

\* the contents a caller gives its ref-th map of each kind
CallerMaps(ref) ==
  [file |-> {[f \in fields |-> Tok(ref, 1)] :
               fields \in (SUBSET FileFields) \ {{}}},
   header |-> {MapOf(ref, {"x-a", "Content-Type"})},
   param |-> {MapOf(ref, ParamKeys)},
   form |-> {MapOf(ref, FormKeys)}]

\* the caller builds a map
MakeMap ==
  /\ ~cmaps.resolved
  /\ Len(cmaps.heap) < MaxMaps
  /\ \E kind \in DOMAIN CallerMaps(1) :
       \E m \in CallerMaps(Len(cmaps.heap) + 1)[kind] :
         cmaps' = [cmaps EXCEPT !.heap = Append(@, m),
                                !.orig = Append(@, m),
                                !.kind = Append(@, kind)]
  /\ UNCHANGED <<pipeVars, optVars, sendVars, ctor, built, env, heap, conc,
                 rbody, redir, envIcpt, dflt, ictx>>

\* the maps of one kind the caller holds
MapsOf(kind) == {ref \in 1..Len(cmaps.heap) : cmaps.kind[ref] = kind}

CanApplyMap == ~cmaps.resolved /\ cmaps.n < MaxMapOpts

\* for k, v := range files { dst[k] = v }
Assign(dst, files) ==
  [k \in DOMAIN dst \cup DOMAIN files |->
     IF k \in DOMAIN files THEN files[k] ELSE dst[k]]

\* the setter of Files(files): opts.Files becomes the caller's map when it
\* is nil, and is written into entry by entry when it is not
FilesSetter ==
  /\ CanApplyMap
  /\ \E files \in MapsOf("file") :
       cmaps' = [cmaps EXCEPT
                   !.heap = IF cmaps.Files # 0
                            THEN [@ EXCEPT ![cmaps.Files] =
                                    Assign(@, cmaps.heap[files])]
                            ELSE @,
                   !.Files = IF cmaps.Files # 0 THEN @ ELSE files,
                   !.bodyType = bodyTypeFiles,
                   !.n = @ + 1]
  /\ UNCHANGED <<pipeVars, optVars, sendVars, ctor, built, env, heap, conc,
                 rbody, redir, envIcpt, dflt, ictx>>

\* the setter of Headers(map[string]string)
HeadersSetter ==
  /\ CanApplyMap
  /\ \E headers \in MapsOf("header") :
       \E order \in Orders(DOMAIN cmaps.heap[headers]) :
         cmaps' = [cmaps EXCEPT
                     !.Headers = AddMap(@, cmaps.heap[headers], order, TRUE),
                     !.n = @ + 1]
  /\ UNCHANGED <<pipeVars, optVars, sendVars, ctor, built, env, heap, conc,
                 rbody, redir, envIcpt, dflt, ictx>>

\* the setter of Params(map[string]string)
ParamsSetter ==
  /\ CanApplyMap
  /\ \E params \in MapsOf("param") :
       \E order \in Orders(DOMAIN cmaps.heap[params]) :
         cmaps' = [cmaps EXCEPT
                     !.Params = AddMap(@, cmaps.heap[params], order, FALSE),
                     !.n = @ + 1]
  /\ UNCHANGED <<pipeVars, optVars, sendVars, ctor, built, env, heap, conc,
                 rbody, redir, envIcpt, dflt, ictx>>

\* the setter of Form(map[string]string)
FormSetter ==
  /\ CanApplyMap
  /\ \E params \in MapsOf("form") :
       \E order \in Orders(DOMAIN cmaps.heap[params]) :
         cmaps' = [cmaps EXCEPT
                     !.Form = AddMap(@, cmaps.heap[params], order, FALSE),
                     !.bodyType = bodyTypeForm,
                     !.n = @ + 1]
  /\ UNCHANGED <<pipeVars, optVars, sendVars, ctor, built, env, heap, conc,
                 rbody, redir, envIcpt, dflt, ictx>>

\* parseOptions returns opts
parseOptionsReturn ==
  /\ ~cmaps.resolved
  /\ cmaps' = [cmaps EXCEPT !.resolved = TRUE]
  /\ UNCHANGED <<pipeVars, optVars, sendVars, ctor, built, env, heap, conc,
                 rbody, redir, envIcpt, dflt, ictx>>

InitMaps ==
  /\ InitCall
  /\ client = NewClient(0)
  /\ InitIdle
  /\ rbody = NoRbody
  /\ redir = NoRedir
  /\ envIcpt = NoEnvIcpt
  /\ dflt = NoDflt
  /\ cmaps = NoCmaps
  /\ ictx = NoIctx

NextMaps ==
  \/ MakeMap
  \/ FilesSetter
  \/ HeadersSetter
  \/ ParamsSetter
  \/ FormSetter
  \/ parseOptionsReturn

SpecMaps == InitMaps /\ [][NextMaps]_vars

Next ==
  \/ callMethod
  \/ CallReturned
  \/ ClientRequest
  \/ CallChained
  \/ CallChainDo
  \/ LeafBefore
  \/ LeafAfter
  \/ RequestReturn
  \/ DoSend
  \/ CtxDone
  \/ DoReceive

Spec == Init /\ [][Next]_vars

\* ===================================================================== claims
Before(i) == [e |-> "before", id |-> i]
After(i) == [e |-> "after", id |-> i]
Transport == [e |-> "T", id |-> NoLeaf]

\* the onion order of the leaves lo..hi around the transport call
Onion(lo, hi) ==
  LET n == hi - lo + 1 IN
  [i \in 1..(2 * n + 1) |->
     IF i <= n THEN Before(lo + i - 1)
     ELSE IF i = n + 1 THEN Transport
     ELSE After(hi - (i - n - 2))]

IsPrefix(sq, full) ==
  /\ Len(sq) <= Len(full)
  /\ \A i \in 1..Len(sq) : sq[i] = full[i]

AllPass == call.shortAt = NoLeaf
InCall == pc \in {"chain", "inflight", "done"}
Is2xx(st) == st >= 200 /\ st <= 299
\* the body of the response was read to its end and the stream closed
\* without error
Drained == rt.kind = "response" /\ rt.dumped \in {"none", "ok"}
           /\ rt.drain = "ok"

\* C1: a chain built by ChainInterceptors from n >= 2 interceptors that each
\* call next once, invoked with the transport call as terminal: the events
\* observed are before(1), ..., before(n), T, after(n), ..., after(1), in
\* that order at every moment of the invocation and complete when it has
\* returned, on every invocation of the composed handler.
C1_ChainOrder ==
  (InCall /\ AllPass /\ ~call.hasP /\ client.n >= 2) =>
    /\ IsPrefix(trace, Onion(1, client.n))
    /\ (pc = "done" /\ rtCalls = 1 => trace = Onion(1, client.n))

C1_Witness ==
  /\ pc = "done" /\ ncalls = MaxCalls /\ AllPass /\ ~call.hasP
  /\ client.n = MaxChain /\ MaxChain >= 2
  /\ trace = Onion(1, MaxChain)

\* C2: with a per-call interceptor P and a client-level chain C, P runs
\* outermost: nothing else of the call (no interceptor of C, no transport
\* call) starts before P's before-phase or happens after P's after-phase,
\* and when all interceptors call next the transport call is innermost.
C2_PerCallOutermost ==
  (InCall /\ call.hasP) =>
    /\ \A i \in 1..Len(trace) :
         trace[i].id # PerCall =>
           /\ \E j \in 1..(i - 1) : trace[j] = Before(PerCall)
           /\ \A j \in 1..(i - 1) : trace[j] # After(PerCall)
    /\ (pc = "done" /\ rtCalls = 1 /\ AllPass) =>
         trace = Onion(PerCall, client.n)

C2_Witness ==
  /\ pc = "done" /\ call.hasP /\ client.n >= 2 /\ AllPass /\ rtCalls = 1
  /\ trace[1] = Before(PerCall)
  /\ trace[Len(trace)] = After(PerCall)
  /\ trace[client.n + 2] = Transport

\* C3: with no interceptor installed the call is the transport call Client.do
\* itself: no interceptor event, one call of do, and the pair returned is the
\* pair do returned; and a chain of one interceptor is that interceptor
\* called with Client.do as its next.
NoInterceptor == ~call.hasP /\ client.n = 0
SingleInterceptor == (call.hasP /\ client.n = 0) \/ (~call.hasP /\ client.n = 1)
C3_EmptyChainIsDo ==
  /\ (InCall /\ NoInterceptor) =>
       /\ \A i \in 1..Len(trace) : trace[i] = Transport
       /\ stack = <<>>
       /\ pc = "chain" => pend.t \in {"do", "ret"}
       /\ (pc = "chain" /\ pend.t = "do") => pend.d = FinalDo
       /\ (pc = "chain" /\ pend.t = "ret") => rtCalls = 1
       /\ (pc = "done" /\ reqCtx = "background"
             /\ result.err.kind # "dumpRequestOut") =>
            (rtCalls = 1 /\ result = doRet /\ rt.kind # "none")
  /\ (InCall /\ SingleInterceptor) =>
       /\ Len(stack) <= 1
       /\ \A k \in 1..Len(stack) : stack[k].d = FinalDo

C3_Witness ==
  /\ pc = "done" /\ NoInterceptor /\ rtCalls = 1
  /\ rt.kind = "response" /\ rt.status = 404
  /\ result = doRet /\ ~result.resp.nil /\ result.err.kind = "status"

\* C4: a response with a status outside [200,299] whose body was drained
\* gives the caller a non-nil Response with that status and the whole body
\* and a non-nil error whose message holds the status line and the body text;
\* a drained response with a status inside [200,299] and no output binding
\* gives a nil error.
C4_StatusError ==
  (pc = "done" /\ Drained) =>
    /\ ~Is2xx(rt.status) =>
         /\ ~result.resp.nil
         /\ result.resp.status = rt.status
         /\ result.resp.body = rt.body
         /\ result.err.kind = "status"
         /\ Len(result.err.msg) = 2
         /\ result.err.msg[1] = rt.status
         /\ result.err.msg[2] = rt.body
    /\ (Is2xx(rt.status) /\ ~call.toText /\ ~call.toJSON) =>
         /\ IsNilErr(result.err)
         /\ ~result.resp.nil

C4_Witness ==
  /\ pc = "done" /\ Drained /\ rt.status = 404 /\ rt.body = "not found"
  /\ ~result.resp.nil /\ result.resp.body = "not found"
  /\ result.err.kind = "status"

\* C7: when the transport round trip fails, the caller gets a nil response and
\* the very error the transport produced, and no response ever comes with a
\* transport error.
C7_TransportError ==
  /\ (pc = "done" /\ rt.kind = "error") =>
       (result.resp.nil /\ result.err = rt.err)
  /\ result.err.kind = "transport" => result.resp.nil

C7_Witness ==
  /\ pc = "done" /\ rt.kind = "error" /\ client.n >= 1
  /\ result.resp.nil /\ result.err \in TransportErrs

\* C5: for Get, Put, Patch and Delete a non-nil Response comes together with a
\* non-nil error only when the status code of the Response is not 2xx.
C5_ResponseWithErrorOnlyNon2xx ==
  (/\ pc = "done"
   /\ call.method \in {"GET", "PUT", "PATCH", "DELETE"}
   /\ call.shortAt = NoLeaf
   /\ ~result.resp.nil
   /\ ~IsNilErr(result.err))
    => ~Is2xx(result.resp.status)

\* C6: whenever the transport returned a response, the body stream has been
\* closed exactly once when the call returns: on success, on a non-2xx
\* status, on a failed drain and on a failed response dump.
C6_BodyClosedOnce ==
  (pc = "done" /\ rt.kind = "response") => closed = 1

\* C8: when the context of the call (Context option, or the deadline derived
\* from the Timeout option) is done while the round trip is in flight, the
\* call returns a non-nil error and no response; when it is not done and the
\* server answers with a 2xx response that is drained and bound to no sink,
\* the call succeeds.
C8_ContextUnblocksRoundTrip ==
  (pc = "done" /\ rtCalls = 1 /\ call.shortAt = NoLeaf) =>
    /\ ctxDone => (result.resp.nil /\ ~IsNilErr(result.err))
    /\ (~ctxDone /\ Drained /\ Is2xx(rt.status) /\ ~call.toJSON) =>
         (~result.resp.nil /\ IsNilErr(result.err))

\* ------------------------------------------------------------ option claims
SuppliedFor(kind, key) == {x \in supplied : x.kind = kind /\ x.key = key}
Range(sq) == {sq[i] : i \in 1..Len(sq)}
\* the one supplied value that token tok is
SuppliedOf(kind, key, tok) ==
  CHOOSE x \in SuppliedFor(kind, key) : x.tok = tok

\* vals holds every value supplied for key, once each, the values of an
\* earlier option before those of a later one and the values of one pairs
\* option in the order of its arguments
HoldsAllOf(vals, kind, key) ==
  /\ Len(vals) = Cardinality(SuppliedFor(kind, key))
  /\ Range(vals) = {x.tok : x \in SuppliedFor(kind, key)}
  /\ \A a, b \in 1..Len(vals) :
       a < b =>
         LET x == SuppliedOf(kind, key, vals[a])
             y == SuppliedOf(kind, key, vals[b])
         IN \/ x.n < y.n
            \/ (x.n = y.n /\ (x.ord => x.j < y.j))
HoldsAll(values, kind) ==
  \A key \in DOMAIN values : HoldsAllOf(values[key], kind, key)
\* vals carries every value supplied for key, in that order, possibly among
\* values nobody supplied
IsSupplied(kind, key, v) == v \in {x.tok : x \in SuppliedFor(kind, key)}
CarriesAll(values, kind) ==
  \A key \in DOMAIN values :
    HoldsAllOf(SelectSeq(values[key], LAMBDA v : IsSupplied(kind, key, v)),
               kind, key)

Resolved == wire.state = "none"
Sent == wire.state = "sent"
ServerQuery == ParseQuery(wire.rawQuery, ParamKeys)
ServerForm == ParseQuery(wire.body.data, FormKeys)
\* the media type the dispatcher of a body variant writes
MediaType(variant) ==
  CASE variant = bodyTypeForm -> FormContentType
    [] variant = bodyTypeJSON -> JSONContentType
    [] OTHER -> MultipartContentType
WritesContentType(variant) ==
  variant \in {bodyTypeForm, bodyTypeJSON, bodyTypeFiles}
\* only Headers, Params and Form options (pairs or map) were of any effect
OnlyMultimapOptions ==
  /\ last.variant \in {bodyTypeDefault, bodyTypeForm}
  /\ last.payload = NoReader
  /\ opts.Data = NoData /\ opts.JSON = NoJSON /\ DOMAIN opts.Files = {}
  /\ \A x \in supplied : x.kind # "file"

\* C9 as stated: for any sequence of Headers/HeaderPairs, Params/ParamPairs
\* and Form/FormPairs options the resolved configuration holds every value of
\* every key in the order applied, and the request sent carries all of them.
C9_AllValuesCarried ==
  OnlyMultimapOptions =>
    /\ Resolved => /\ HoldsAll(opts.Headers, "header")
                   /\ HoldsAll(opts.Params, "param")
                   /\ HoldsAll(opts.Form, "form")
    /\ Sent => /\ CarriesAll(wire.headers, "header")
               /\ CarriesAll(ServerQuery, "param")
               /\ last.variant = bodyTypeForm => CarriesAll(ServerForm, "form")

\* C9 amended: the resolved configuration holds every value of every key in
\* the order applied; the request sent carries every query parameter, every
\* form field when the form variant is active, and every header value, except
\* that under an active form, JSON or files variant the Content-Type header
\* carries the media type of that variant alone.
C9_AllValuesCarriedButContentType ==
  /\ Resolved => /\ HoldsAll(opts.Headers, "header")
                 /\ HoldsAll(opts.Params, "param")
                 /\ HoldsAll(opts.Form, "form")
  /\ Sent => /\ \A key \in DOMAIN wire.headers :
                  IF key = "Content-Type" /\ WritesContentType(last.variant)
                  THEN wire.headers[key] = <<MediaType(last.variant)>>
                  ELSE HoldsAllOf(wire.headers[key], "header", key)
             /\ HoldsAll(ServerQuery, "param")
             /\ last.variant = bodyTypeForm => HoldsAll(ServerForm, "form")

C9_Witness ==
  /\ Sent /\ OnlyMultimapOptions /\ last.variant = bodyTypeForm
  /\ \E key \in FormKeys :
       /\ Len(ServerForm[key]) >= 3
       /\ \E x, y \in SuppliedFor("form", key) : x.n # y.n
  /\ wire.headers["Content-Type"] = <<FormContentType>>

\* the file the latest Files option gave for a field
LatestFile(field) ==
  LET xs == SuppliedFor("file", field)
  IN (CHOOSE x \in xs : \A y \in xs : y.n <= x.n).tok

\* C10: with several body-variant options in one call the variant of the last
\* one applied is active: the body sent is the encoding of that option's
\* payload by that variant, the Content-Type is the one of that variant (or,
\* for Body and Data, only what the caller supplied), and the call fails in
\* encoding only when the last option is a JSON value that cannot be
\* marshalled.
C10_LastVariantWins ==
  /\ Sent =>
       /\ CASE last.variant = bodyTypeDefault ->
                 /\ wire.body.enc = "raw"
                 /\ wire.body.data =
                      (IF last.payload = NoReader THEN ""
                       ELSE last.payload.data)
            [] last.variant = bodyTypeData ->
                 /\ wire.body.enc = "data"
                 /\ wire.body.data = (IF last.payload.t = "string"
                                      THEN last.payload.s ELSE "7")
            [] last.variant = bodyTypeForm ->
                 /\ wire.body.enc = "form"
                 /\ HoldsAll(ServerForm, "form")
            [] last.variant = bodyTypeJSON ->
                 /\ wire.body.enc = "json"
                 /\ last.payload \in {"object", NoJSON}
                 /\ wire.body.data = (IF last.payload = "object"
                                      THEN "{\"ID\":1}" ELSE "")
            [] OTHER ->
                 /\ wire.body.enc = "multipart"
                 /\ wire.body.data =
                      {[field |-> f, file |-> LatestFile(f)] :
                         f \in {x.key : x \in {y \in supplied : y.kind = "file"}}}
       /\ IF WritesContentType(last.variant)
          THEN wire.headers["Content-Type"] = <<MediaType(last.variant)>>
          ELSE HoldsAllOf(wire.headers["Content-Type"], "header",
                          "Content-Type")
  /\ wire.state = "failed" =>
       (last.variant = bodyTypeJSON /\ last.payload = "unmarshalable")
  /\ (wire.state # "none" /\ last.variant = bodyTypeJSON
        /\ last.payload = "unmarshalable") => wire.state = "failed"

C10_Witness ==
  /\ Sent /\ nopts >= 2
  /\ last.variant = bodyTypeJSON /\ last.payload = "object"
  /\ \E x \in supplied : x.kind = "form"
  /\ opts.Form # EmptyValues(FormKeys)
  /\ wire.body = [enc |-> "json", data |-> "{\"ID\":1}"]
  /\ wire.headers["Content-Type"] = <<JSONContentType>>

\* C14: a call made with Timeout(0) and no Context option carries no deadline
\* and no cancellation: its context is never done, and once the transport has
\* answered the call returns the transport's answer.
NoTimeoutNoContext == call.timeout = 0 /\ ~call.ctxCancellable
C14_ZeroTimeoutUnbounded ==
  (InCall /\ NoTimeoutNoContext) =>
    /\ ~ctx.deadline /\ ~ctx.cancellable
    /\ ~ctxDone
    /\ ~(ENABLED CtxDone)
    /\ (pc = "done" /\ rtCalls = 1) => (rt.kind # "none" /\ rt.err # CtxErr)

C14_Witness ==
  /\ pc = "done" /\ NoTimeoutNoContext /\ rtCalls = 1
  /\ rt.kind = "response" /\ rt.status = 200
  /\ IsNilErr(result.err) /\ ~result.resp.nil

\* C18: output bindings are written only on the success path: a written
\* binding means a 2xx response and a nil error; a 2xx response whose body
\* decodes leaves the bindings holding the body and a nil error; a non-2xx
\* response, a failed drain and a transport error leave them untouched.
BindingWritten == sinks.text # "unset" \/ sinks.json # "unset"
FailedBeforeTransport ==
  result.err.kind \in {"encode", "newRequest", "dumpRequestOut"}
C20_NoRetry ==
  /\ rtCalls <= 1
  /\ (pc = "done" /\ FailedBeforeTransport) =>
       (rtCalls = 0 /\ rt.kind = "none" /\ trace = <<>>)

C20_Witness ==
  /\ pc = "done" /\ rtCalls = 1 /\ rt.kind = "error"
  /\ result.err \in TransportErrs /\ client.n >= 1

\* ------------------------------------------------------------ C11, C12, C19
\* the call was dispatched
Dispatched == wire.state # "none"
\* the URL holds a literal '?' and the options hold parameters
QueryAndParams == url.hasQ /\ NumKeys(opts.Params) # 0
\* the body of the active variant cannot be encoded
EncodeFails == opts.bodyType = bodyTypeJSON /\ opts.JSON = "unmarshalable"
\* the values the URL itself gives to key k, in the order written
LiteralValues(k) ==
  LET lit == SelectSeq(url.raw, LAMBDA x : x.k = k)
  IN [i \in 1..Len(lit) |-> lit[i].v]

C12_LiteralAndOptionParams ==
  /\ (Dispatched /\ url.valid /\ ~EncodeFails) => wire.state = "sent"
  /\ wire.state = "sent" =>
       \A k \in ParamKeys : ServerQuery[k] = LiteralValues(k) \o opts.Params[k]
  /\ served.got =>
       \A k \in ParamKeys : served.query[k] = LiteralValues(k) \o opts.Params[k]

\* the server received a key with a value of the URL and one of an option
C12_Witness ==
  /\ served.got
  /\ \E k \in ParamKeys :
       /\ LiteralValues(k) # <<>>
       /\ opts.Params[k] # <<>>
       /\ served.query[k] = LiteralValues(k) \o opts.Params[k]
  /\ \E k \in ParamKeys : LiteralValues(k) # <<>> /\ opts.Params[k] = <<>>

\* C19: whatever the body variant, the bytes a per-call interceptor reads
\* with Request.Bytes() are the bytes the server receives as the body, and the
\* header the interceptor sets before it calls do reaches the server.
C19_InterceptorSeesSentBody ==
  (seen.read /\ served.got) =>
    /\ served.body = seen.bytes
    /\ served.headers[IcptHeader] = <<"len(r.Bytes())">>

\* an interceptor read a non-empty body that the server then received
C19_Witness ==
  /\ seen.read
  /\ served.got
  /\ seen.bytes.data # ""
  /\ opts.bodyType # bodyTypeDefault

\* ---------------------------------------------------------------------- C13
\* C13: HeaderPairs, ParamPairs and FormPairs panic exactly when len(kv) is
\* odd, and they do so when the option is constructed: nothing was resolved
\* into the options, no request was built and none was sent; with an even
\* len(kv) the option is built and applied without a panic.
C13_PairsPanicOnOdd ==
  /\ ctor.state = "panicked" =>
       /\ Len(ctor.kv) % 2 = 1
       /\ opts = newDefaultOptions
       /\ nopts = 0
       /\ wire = NoWire
       /\ ~served.got
  /\ ctor.state \in {"built", "applied"} => Len(ctor.kv) % 2 = 0

\* a pairs constructor panicked on a key left without its value
C13_Witness ==
  /\ ctor.state = "panicked"
  /\ Len(ctor.kv) >= 3

\* ---------------------------------------------------------------------- C15
\* C15: a Client that NewClient made without a WithTimeout setter has the
\* client timeout zero.
C15_DefaultTimeoutZero ==
  (built.stage = "done" /\ ~built.timeoutSet) => built.client.Timeout = 0

\* ----------------------------------------------------------------- C16, C17
\* call i has chosen its transport
Chosen(i) == conc[i].pc \in {"send", "done"}
\* call i has neither a transport of its own nor one registered for its host
NoOverride(i) == conc[i].RoundTripper = "nil" /\ conc[i].rt = "nil"

\* C16: the transport of a call is the per-call RoundTripper if one is set;
\* otherwise the RoundTripper registered for the host of the request, if do
\* found one, whether or not DisableKeepAlives was asked for; otherwise a
\* clone of its own with keep-alives disabled if DisableKeepAlives was asked
\* for; otherwise the shared transport.
C16_TransportPrecedence ==
  \A i \in 1..MaxConc :
    Chosen(i) =>
      LET c == conc[i] IN
      /\ c.RoundTripper # "nil" => c.roundTripper = c.RoundTripper
      /\ (c.RoundTripper = "nil" /\ c.rt # "nil") => c.roundTripper = c.rt
      /\ (NoOverride(i) /\ c.DisableKeepAlives) =>
           /\ c.roundTripper = CloneId(i)
           /\ c.roundTripper # env.transport
           /\ heap[c.roundTripper].allocated
           /\ heap[c.roundTripper].DisableKeepAlives
      /\ (NoOverride(i) /\ ~c.DisableKeepAlives) =>
           c.roundTripper = env.transport

\* a call that asked for DisableKeepAlives went out on the transport
\* registered for its host
C16_Witness ==
  \E i \in 1..MaxConc :
    /\ conc[i].pc = "done"
    /\ conc[i].DisableKeepAlives
    /\ conc[i].RoundTripper = "nil"
    /\ conc[i].rt = "hostRT"
    /\ conc[i].used.rt = "hostRT"

\* C17: however a call with DisableKeepAlives and a concurrent call without
\* it interleave, the shared transport keeps DisableKeepAlives false, the
\* first goes out on a clone of its own with keep-alives disabled and the
\* second on the shared transport with keep-alives enabled.
C17_SharedTransportUntouched ==
  /\ ~heap[env.transport].DisableKeepAlives
  /\ env.transport = SharedTransport
  /\ \A i \in 1..MaxConc :
       (conc[i].pc = "done" /\ NoOverride(i)) =>
          IF conc[i].DisableKeepAlives
          THEN /\ conc[i].used.rt = CloneId(i)
               /\ conc[i].used.rt # env.transport
               /\ conc[i].used.keepAlivesDisabled
          ELSE /\ conc[i].used.rt = env.transport
               /\ ~conc[i].used.keepAlivesDisabled

\* a call without DisableKeepAlives went out on the shared transport after a
\* concurrent call with DisableKeepAlives had set the flag of its clone and
\* before that call went out itself
C17_Witness ==
  \E i, j \in 1..MaxConc :
    /\ i # j
    /\ conc[i].pc = "send" /\ NoOverride(i) /\ conc[i].DisableKeepAlives
    /\ heap[CloneId(i)].DisableKeepAlives
    /\ conc[j].pc = "done" /\ NoOverride(j) /\ ~conc[j].DisableKeepAlives
    /\ conc[j].used.rt = SharedTransport

\* ----------------------------------------------------------------- C24, C27
\* the events of a call whose interceptor s returns without calling next,
\* lo being the outermost interceptor
ShortTrace(lo, s) ==
  LET n == s - lo + 1 IN
  [i \in 1..(2 * n) |-> IF i <= n THEN Before(lo + i - 1)
                        ELSE After(s - (i - n - 1))]
Outermost == IF call.hasP THEN PerCall ELSE PerCall + 1

\* C24: when the interceptor at some position returns without calling next,
\* no interceptor behind it runs, the transport call is not made, and the
\* caller receives the pair that interceptor returned, handed back by the
\* interceptors before it.
C24_ShortCircuit ==
  (InCall /\ call.shortAt # NoLeaf) =>
    /\ \A k \in 1..Len(trace) :
         /\ trace[k] # Transport
         /\ trace[k].e = "before" => trace[k].id <= call.shortAt
    /\ rtCalls = 0
    /\ rt = NoRt
    /\ IsPrefix(trace, ShortTrace(Outermost, call.shortAt))
    /\ (pc = "done" /\ trace # <<>>) =>
         /\ trace = ShortTrace(Outermost, call.shortAt)
         /\ result = [resp |-> NilResp, err |-> ShortErr]

\* an interceptor in the middle of a chain short-circuited a call that returned
C24_Witness ==
  /\ pc = "done"
  /\ call.hasP
  /\ client.n >= 2
  /\ call.shortAt = PerCall + 1
  /\ trace = ShortTrace(PerCall, PerCall + 1)
  /\ result.err = ShortErr

\* the response that the transport returned could be dumped
ResponseDumped == rt.kind = "response" /\ rt.dumped = "ok"

\* C27: with dump sinks, the request sink is written once the request is
\* built and before any interceptor runs; the response sink is written when
\* the transport has returned a response that could be dumped, whatever its
\* status, and is left alone on a transport error; with or without
\* interceptors.  Without dump sinks nothing is written.
C27_DumpSinks ==
  /\ (call.dump /\ (trace # <<>> \/ pc \in {"chain", "inflight"})) =>
       sinks.req = "written"
  /\ (call.dump /\ ResponseDumped) => sinks.resp = "written"
  /\ (call.dump /\ pc = "done" /\ ~ResponseDumped) => sinks.resp = "unset"
  /\ (pc \in {"chain", "inflight"} /\ rt.kind = "none") => sinks.resp = "unset"
  /\ ~call.dump => (sinks.req = "unset" /\ sinks.resp = "unset")

\* a call through interceptors ended in a status error with both sinks written
C27_Witness ==
  /\ pc = "done"
  /\ call.dump
  /\ call.hasP /\ client.n >= 1
  /\ rt.kind = "response" /\ rt.status = 404
  /\ result.err.kind = "status"
  /\ sinks.req = "written" /\ sinks.resp = "written"

\* ---------------------------------------------------------------------- C30
\* C30: the round trip runs under the context the interceptor passes to do:
\* when that context is cancelled or expires while the round trip is in
\* flight, the round trip is aborted with the error of the context.
C30_DoRunsUnderPassedContext ==
  (ictx.pc = "done" /\ ictx.done) =>
    (ictx.out.kind = "error" /\ ictx.out.err = CtxErr)

\* ---------------------------------------------------------------------- C22
\* the Authorization value of the first request of the chain
OriginAuthorization == HeaderGet(redir.via[1], "Authorization")

\* C22: on a redirect hop, when the first request of the chain carries a
\* non-empty Authorization, the redirected request carries that value, as
\* its effective one unless it already had another, and nothing else of it
\* changes; when the first request carries none, the header of the
\* redirected request is left as it was; an error is returned only for an
\* empty via.
C22_RedirectKeepsAuthorization ==
  redir.state = "returned" =>
    /\ ~IsNilErr(redir.err) <=> redir.via = <<>>
    /\ redir.via = <<>> => redir.out = redir.req
    /\ (redir.via # <<>> /\ OriginAuthorization # "") =>
         /\ \E i \in 1..Len(redir.out["Authorization"]) :
              redir.out["Authorization"][i] = OriginAuthorization
         /\ redir.req["Authorization"] \in {<<>>, redir.via[1]["Authorization"]}
              => HeaderGet(redir.out, "Authorization") = OriginAuthorization
         /\ IsPrefix(redir.req["Authorization"], redir.out["Authorization"])
         /\ redir.out["X-A"] = redir.req["X-A"]
    /\ (redir.via # <<>> /\ OriginAuthorization = "") =>
         redir.out = redir.req

\* a second hop got the Authorization of the first request, which the request
\* before it did not carry
C22_Witness ==
  /\ redir.state = "returned"
  /\ Len(redir.via) = MaxVia
  /\ OriginAuthorization = "Basic a"
  /\ HeaderGet(redir.via[Len(redir.via)], "Authorization") = ""
  /\ redir.req["Authorization"] = <<>>
  /\ redir.out["Authorization"] = <<"Basic a">>

\* ---------------------------------------------------------------------- C23
\* C23: a request sent under an active Form, JSON or Files variant has one
\* Content-Type value, the media type of the variant, whatever Content-Type
\* the caller gave through Headers or HeaderPairs; under Body or Data the
\* Content-Type values are those the caller gave, in order, and none without.
C23_ContentTypeOfVariant ==
  Sent =>
    IF last.variant \in {bodyTypeForm, bodyTypeJSON, bodyTypeFiles}
    THEN /\ Len(wire.headers["Content-Type"]) = 1
         /\ wire.headers["Content-Type"][1] = MediaType(last.variant)
    ELSE /\ HoldsAllOf(wire.headers["Content-Type"], "header", "Content-Type")
         /\ SuppliedFor("header", "Content-Type") = {} =>
              wire.headers["Content-Type"] = <<>>

\* a JSON body was sent with the JSON media type alone although the caller
\* gave a Content-Type
C23_Witness ==
  /\ Sent
  /\ last.variant = bodyTypeJSON
  /\ SuppliedFor("header", "Content-Type") # {}
  /\ wire.headers["Content-Type"] = <<JSONContentType>>

\* ---------------------------------------------------------------------- C25
\* the raw Body option is the active variant and gave a reader
RawBodyActive == last.variant = bodyTypeDefault /\ last.payload # NoReader

\* C25: with the raw Body option active, the body handed to the transport and
\* received by the server is the content of the reader the caller gave, and
\* the request has no Content-Type but what the caller gave.
C25_RawBodyUnchanged ==
  RawBodyActive =>
    /\ wire.state = "sent" =>
         /\ wire.body.data = last.payload.data
         /\ HoldsAllOf(wire.headers["Content-Type"], "header", "Content-Type")
    /\ served.got =>
         /\ served.body.data = last.payload.data
         /\ HoldsAllOf(served.headers["Content-Type"], "header", "Content-Type")

\* the server received the content of the caller's reader
C25_Witness ==
  /\ RawBodyActive
  /\ served.got
  /\ last.payload.data = "raw-bytes"
  /\ served.body.data = "raw-bytes"
  /\ served.headers["Content-Type"] = <<>>

\* ---------------------------------------------------------------------- C21
\* C21: over any sequence of Bytes, Text and JSON calls on a Response, with
\* Close calls between them, the network stream is read once in all, by the
\* drain that built the Response, and every call works on the bytes that
\* drain buffered, which are the whole body.
C21_BodyReadOnce ==
  /\ rbody.reads <= 1
  /\ rbody.state \in {"held", "nil"} => rbody.reads = 1
  /\ rbody.state = "held" =>
       /\ rbody.body = rbody.data
       /\ \A i \in 1..Len(rbody.rets) : rbody.rets[i].bytes = rbody.data

\* a Response was read with all three accessors after its stream was drained
C21_Witness ==
  /\ rbody.state = "held"
  /\ Len(rbody.rets) = MaxAccess
  /\ \E i, j \in 1..Len(rbody.rets) :
       rbody.rets[i].op = "Bytes" /\ rbody.rets[j].op = "JSON"
  /\ rbody.data # ""
  /\ rbody.reads = 1

\* ---------------------------------------------------------------------- C26
\* C26: the interceptor of the environment runs every interceptor ever handed
\* to the package-level WithInterceptor, in the order they were handed over,
\* so that those of an earlier call run outside those of a later one, and a
\* call with no interceptor leaves the environment's interceptor as it was.
C26_EnvChainAccumulates ==
  /\ RunEnv(envIcpt.interceptor) = envIcpt.registered
  /\ envIcpt.invoked => envIcpt.ran = envIcpt.registered
  /\ (envIcpt.calls > 0 /\ envIcpt.args = <<>>) =>
       envIcpt.interceptor = envIcpt.prev

\* a request ran through interceptors of three calls, one of them empty
C26_Witness ==
  /\ envIcpt.invoked
  /\ envIcpt.calls = MaxRegs
  /\ envIcpt.args = <<>>
  /\ envIcpt.interceptor.kind = "chained"
  /\ envIcpt.interceptor.ints[1].kind = "chained"
  /\ Len(envIcpt.ran) >= 3
  /\ envIcpt.ran[1] # envIcpt.ran[2]

\* ---------------------------------------------------------------------- C28
\* C28: when goroutines make their first calls of the package-level Get,
\* Post, Put, Patch, Delete and InitDefaultClient at the same time, the
\* default client is constructed once, and every caller gets that one
\* instance from getDefaultClient, never nil and never a second one.
C28_DefaultClientOnce ==
  /\ dflt.constructed <= 1
  /\ dflt.done => dflt.constructed = 1
  /\ \A g \in DOMAIN dflt.g :
       dflt.g[g].pc = "done" =>
         /\ dflt.g[g].seen = 1
         /\ dflt.g[g].seen = dflt.defaultClient

\* InitDefaultClient and a request function both found the Once not done,
\* and both have their client
C28_Witness ==
  /\ DOMAIN dflt.g = Goroutines
  /\ \A g \in Goroutines : dflt.g[g].pc = "done" /\ dflt.g[g].slow
  /\ \E g, h \in Goroutines :
       dflt.g[g].entry = "InitDefaultClient" /\ dflt.g[h].entry = "Get"

\* ---------------------------------------------------------------------- C29
\* C29: when parseOptions has gone over the options of a call, every map the
\* caller handed to Files, Headers, Params or Form holds the entries it held
\* when the caller built it.
C29_CallerMapsUnchanged ==
  cmaps.resolved =>
    \A ref \in 1..Len(cmaps.heap) : cmaps.heap[ref] = cmaps.orig[ref]

====
